---- MODULE Spec2Model ----
(***************************************************************************)
(* Model of the flux route-convention engine and request dispatch          *)
(* pipeline (pkg/flux/app.go, controller.go, context.go, errors.go).       *)
(*                                                                         *)
(* Go strings are modelled as sequences of one-character strings, so that  *)
(* prefix tests, trimming, case conversion and the camel-case scan are     *)
(* computed character by character, as the code computes them.             *)
(***************************************************************************)
EXTENDS Integers, Sequences, FiniteSets, TLC

VARIABLES
    pCtrl,      \* name of the controller type whose method is being parsed
    pName,      \* the method name handed to parseRouteFromMethodName
    pRoute,     \* the RouteInfo it returned
    cMw,        \* controller -> Controller.middleware
    cApp,       \* controller -> Controller.app is set
    gPrefix,    \* ControllerGroup.prefix
    gMw,        \* ControllerGroup.middleware
    gCtrls,     \* ControllerGroup.controllers
    gDone,      \* ControllerGroup.Register has returned
    gPos,       \* how many of the group's controllers Register has gone through
    appCtrls,   \* Application.controllers
    appRoutes,  \* Application.routes, the RouteManager's table
    routesFile, \* the routes file GenerateRouteFiles last wrote
    appSetup,   \* how many configuration calls the application has had
    stack,      \* the transport's route stack (fiber), in registration order
    loopVarPerIter, \* build: does each loop iteration get its own variable
    req,        \* the last request served since the configuration last changed
    log,        \* observable call order of that request
    resp,       \* response to that request
    chMw,       \* Controller.middleware of the controller whose route closure runs
    rObjs,      \* the Route values RegisterRoute has allocated, by address
    rMap,       \* Controller.routes: route key -> address of a Route
    rFound,     \* what the last GetRouteByName returned
    tCfg,       \* the chain around one handler: Recover, Timeout(d), the Context
    tReq,       \* what the handler of the request in progress does
    tMain,      \* the goroutine serving the request
    tHand,      \* the execution of the handler (next(ctx))
    tClock,     \* time elapsed since time.After(duration) was started
    tCtx,       \* uses of the request's Context by the handler
    tCrashed,   \* the process has died of a panic no one recovered
    lkMu,       \* Application.mu: is it write-locked, and by how many readers
    lkWriters,  \* the mutating calls in progress
    lkReaders,  \* requests in flight that read Controller.middleware
    scDecls,    \* the struct types of the program: name -> its fields
    scRoot,     \* the type handed to generateSchemaFromType
    scStack,    \* the calls of generateSchemaFromType in progress
    scResult,   \* what the outermost call returned
    rlCfg,      \* RateLimiterConfig: Max and Window
    rlClock,    \* time.Now(), in half seconds
    rlClients,  \* the client records, by address: windows, lastAccessed, mu
    rlData,     \* clients.data[key]: the address of the key's client, 0 if none
    rlSweep,    \* the cleanup goroutine: position and the time it read
    rlReqs,     \* the requests of that key in flight: where they are, their now
    rlAdmitted, \* the arrival times of the requests passed on to next
    rlLast,     \* the request answered last
    caStore,    \* the value Redis holds under the key, or Missing
    caCalls,    \* the GetOrSet calls on the key: where each one is
    caReturned, \* the value the first GetOrSet to complete returned
    quList,     \* the Redis list "queue": job ids, pushed at the head
    quJobs,     \* the Redis keys job:<id>: id -> the stored Job
    quRuns,     \* id -> how often a handler has been run on the job
    quIds,      \* how many Enqueue calls have been made
    quClock,    \* time.Now().UnixNano(), which generateID formats as the id
    quEnq,      \* producer -> the Enqueue call it is in: position and job
    quWorkers,  \* the processJobs goroutines: position, popped id, decoded job
    erObjs,     \* the AppError values, by address; the sentinels come first
    erMaps,     \* the Details maps, by address
    erWriting,  \* goroutine -> the WithDetail call it is in, if any
    erCrashed   \* the runtime has ended the process (concurrent map writes)

vars == <<pCtrl, pName, pRoute, cMw, cApp, gPrefix, gMw, gCtrls, gDone, gPos, appCtrls,
          appRoutes, routesFile, appSetup, stack, loopVarPerIter, req, log, resp, chMw, rObjs, rMap, rFound,
          tCfg, tReq, tMain, tHand, tClock, tCtx, tCrashed,
          lkMu, lkWriters, lkReaders,
          scDecls, scRoot, scStack, scResult,
          rlCfg, rlClock, rlClients, rlData, rlSweep, rlReqs, rlAdmitted, rlLast,
          caStore, caCalls, caReturned,
          quList, quJobs, quRuns, quIds, quClock, quEnq, quWorkers,
          erObjs, erMaps, erWriting, erCrashed>>

parseVars == <<pCtrl, pName, pRoute>>
tableVars == <<appRoutes, routesFile>>
appVars == <<cMw, cApp, gPrefix, gMw, gCtrls, gDone, gPos, appCtrls, tableVars,
            appSetup, stack, loopVarPerIter>>
reqVars == <<req, log, resp>>
chainVars == <<chMw>>
ctlVars == <<rObjs, rMap, rFound>>
\* the variables of the specifications that follow the application's
toVars == <<tCfg, tReq, tMain, tHand, tClock, tCtx, tCrashed>>
lockVars == <<lkMu, lkWriters, lkReaders>>
schemaVars == <<scDecls, scRoot, scStack, scResult>>
\* the variables of the library packages (schema generation)
rateVars == <<rlCfg, rlClock, rlClients, rlData, rlSweep, rlReqs, rlAdmitted,
             rlLast>>
cacheVars == <<caStore, caCalls, caReturned>>
queueVars == <<quList, quJobs, quRuns, quIds, quClock, quEnq, quWorkers>>
errVars == <<erObjs, erMaps, erWriting, erCrashed>>
libVars == <<schemaVars, rateVars, cacheVars, queueVars, errVars>>
baseVars == <<parseVars, appVars, reqVars, chainVars, ctlVars, toVars, lockVars>>
extVars == <<ctlVars, toVars, lockVars, libVars>>

(***************************************************************************)
(* Strings                                                                 *)
(***************************************************************************)
UpperAZ == <<"A","B","C","D","E","F","G","H","I","J","K","L","M",
             "N","O","P","Q","R","S","T","U","V","W","X","Y","Z">>
LowerAZ == <<"a","b","c","d","e","f","g","h","i","j","k","l","m",
             "n","o","p","q","r","s","t","u","v","w","x","y","z">>

\* a letter outside ASCII that Go allows in an identifier, with its lower case
UpperOther == <<"É">>
LowerOther == <<"é">>

\* r >= 'A' && r <= 'Z'
IsUpperAZ(r) == \E i \in DOMAIN UpperAZ : UpperAZ[i] = r
IsLowerAZ(r) == \E i \in DOMAIN LowerAZ : LowerAZ[i] = r
\* unicode.IsUpper / unicode.IsLower
IsUpper(r) == IsUpperAZ(r) \/ \E i \in DOMAIN UpperOther : UpperOther[i] = r
IsLower(r) == IsLowerAZ(r) \/ \E i \in DOMAIN LowerOther : LowerOther[i] = r

\* unicode.ToLower / unicode.ToUpper, which strings.ToLower and
\* strings.ToUpper apply to every rune
ToLowerRune(r) ==
    IF IsUpper(r)
    THEN LET up == UpperAZ \o UpperOther
             low == LowerAZ \o LowerOther
         IN  low[CHOOSE i \in DOMAIN up : up[i] = r]
    ELSE r
ToUpperRune(r) ==
    IF IsLower(r)
    THEN LET up == UpperAZ \o UpperOther
             low == LowerAZ \o LowerOther
         IN  up[CHOOSE i \in DOMAIN low : low[i] = r]
    ELSE r

ToLower(s) == [i \in DOMAIN s |-> ToLowerRune(s[i])]
ToUpper(s) == [i \in DOMAIN s |-> ToUpperRune(s[i])]

HasPrefix(s, p) == Len(s) >= Len(p) /\ SubSeq(s, 1, Len(p)) = p
HasSuffix(s, p) == Len(s) >= Len(p) /\ SubSeq(s, Len(s) - Len(p) + 1, Len(s)) = p
TrimPrefix(s, p) == IF HasPrefix(s, p) THEN SubSeq(s, Len(p) + 1, Len(s)) ELSE s
TrimSuffix(s, p) == IF HasSuffix(s, p) THEN SubSeq(s, 1, Len(s) - Len(p)) ELSE s
Contains(s, sub) ==
    \E i \in 1..(Len(s) - Len(sub) + 1) : SubSeq(s, i, i + Len(sub) - 1) = sub

RECURSIVE Concat(_)
Concat(ss) == IF ss = <<>> THEN <<>> ELSE Head(ss) \o Concat(Tail(ss))

\* string literals of the source
sHandle == <<"H","a","n","d","l","e">>
sController == <<"C","o","n","t","r","o","l","l","e","r">>
sGet == <<"G","e","t">>
sPost == <<"P","o","s","t">>
sPut == <<"P","u","t">>
sDelete == <<"D","e","l","e","t","e">>
sPatch == <<"P","a","t","c","h">>
sOptions == <<"O","p","t","i","o","n","s">>
sHead == <<"H","e","a","d">>
sIndexLower == <<"i","n","d","e","x">>
sById == <<"b","y","-","i","d">>
sSlash == <<"/">>
sSlashId == <<"/",":","i","d">>
sEmpty == <<>>

GET == <<"G","E","T">>
POST == <<"P","O","S","T">>
PUT == <<"P","U","T">>
DELETE == <<"D","E","L","E","T","E">>
PATCH == <<"P","A","T","C","H">>
OPTIONS == <<"O","P","T","I","O","N","S">>
HEAD == <<"H","E","A","D">>

\* the verb list both loops of app.go scan, in declaration order
VerbList == <<sGet, sPost, sPut, sDelete, sPatch, sOptions, sHead>>

(***************************************************************************)
(* parseRouteFromMethodName (app.go)                                       *)
(***************************************************************************)
\* for _, method := range verbs { if HasPrefix { ...; break } }
\* the index of the verb the loop stops at, 0 when it runs to the end
RECURSIVE ScanVerbsFrom(_, _)
ScanVerbsFrom(actionName, i) ==
    IF i > Len(VerbList) THEN 0
    ELSE IF HasPrefix(actionName, VerbList[i]) THEN i
    ELSE ScanVerbsFrom(actionName, i + 1)

ScanVerbs(actionName) == ScanVerbsFrom(actionName, 1)

\* for i, r := range actionName { if i > 0 && upper { '-' }; ToLower(r) }
RECURSIVE BuildPathFrom(_, _)
BuildPathFrom(actionName, i) ==
    IF i > Len(actionName) THEN <<>>
    ELSE (IF i > 1 /\ IsUpperAZ(actionName[i]) THEN <<"-">> ELSE <<>>)
         \o <<ToLowerRune(actionName[i])>>
         \o BuildPathFrom(actionName, i + 1)

BuildPath(actionName) == BuildPathFrom(actionName, 1)

\* variant: the by-id test only recognises a fragment that is exactly by-id
RoutePathExactById(basePath, actionPath) ==
    IF actionPath = sIndexLower \/ actionPath = sEmpty THEN basePath
    ELSE IF actionPath = sById THEN basePath \o sSlashId
    ELSE basePath \o sSlash \o actionPath

\* the three returns inside `if actionName != ""`
RoutePath(basePath, actionPath) ==
    IF actionPath = sIndexLower \/ actionPath = sEmpty THEN basePath
    ELSE IF Contains(actionPath, sById) THEN basePath \o sSlashId
    ELSE basePath \o sSlash \o actionPath

parseRouteFromMethodName(methodName, basePath) ==
    LET trimmed == TrimPrefix(methodName, sHandle)
        v == ScanVerbs(trimmed)
        httpMethod == IF v = 0 THEN GET ELSE ToUpper(VerbList[v])
        actionName == IF v = 0 THEN trimmed ELSE TrimPrefix(trimmed, VerbList[v])
    IN  IF actionName # sEmpty
        THEN [HTTPMethod |-> httpMethod,
              Path |-> RoutePath(basePath, BuildPath(actionName))]
        ELSE [HTTPMethod |-> httpMethod, Path |-> basePath]

\* RegisterController: controllerName -> basePath
BasePathOf(controllerName) ==
    sSlash \o ToLower(TrimSuffix(controllerName, sController))

(***************************************************************************)
(* Errors (errors.go) and what a handler or middleware can return          *)
(***************************************************************************)
NilErr == [kind |-> "nil", status |-> 0, code |-> ""]
\* NewAppError(message, statusCode): Code is left empty
NewAppError(statusCode) == [kind |-> "app", status |-> statusCode, code |-> ""]
WithCode(e, c) == [e EXCEPT !.code = c]
ErrNotFound == NewAppError(404)
ErrUnauthorized == NewAppError(401)
ErrInternalError == NewAppError(500)
\* an error that is no *AppError and no *fiber.Error
PlainErr == [kind |-> "plain", status |-> 0, code |-> ""]
\* a transport error, fiber.NewError(code)
FiberErr(c) == [kind |-> "fiber", status |-> c, code |-> ""]
\* AsAppError: the AppError itself, else ErrInternalError.WithError(err)
AsAppError(err) == IF err.kind = "app" THEN err ELSE ErrInternalError

(***************************************************************************)
(* One request's execution state: the fiber.Ctx route index, the response  *)
(* under construction, the error being returned and the call order         *)
(***************************************************************************)
NoBody == [by |-> "", ctrl |-> "", name |-> sEmpty, of |-> NilErr]
StartState ==
    [idx |-> 0, matched |-> FALSE, log |-> <<>>,
     status |-> 200, body |-> NoBody, err |-> NilErr, yielded |-> NilErr,
     app |-> FALSE, apps |-> <<>>]

Event(who, ev) == [who |-> who, ev |-> ev, ctrl |-> "", name |-> sEmpty]
\* the handler method `name` of controller `ctrl` being invoked
CallEvent(ctrl, name) == [who |-> "T", ev |-> "call", ctrl |-> ctrl, name |-> name]
Logged(st, who, ev) == [st EXCEPT !.log = Append(@, Event(who, ev))]
\* a handler or middleware is invoked with the current Context: what its
\* ctx.App() is (TRUE: the Application, FALSE: nil) is noted
Invoked(st, who) == [st EXCEPT !.apps = Append(@, [who |-> who, app |-> st.app])]
\* the Context a dispatcher builds: NewContext(c, app) or &Context{Ctx: c}
WithContext(st, app) == [st EXCEPT !.app = app]

\* c.Status(code).JSON(v)
StatusJSON(st, code, by, of) ==
    [st EXCEPT !.status = code,
               !.body = [by |-> by, ctrl |-> "", name |-> sEmpty, of |-> of]]

\* Context.Error (context.go)
ContextError(st, err) ==
    IF err.kind = "app"
    THEN LET code == IF err.code # "" THEN err.status ELSE 500
         IN  [StatusJSON(st, code, "Context.Error", err) EXCEPT !.err = NilErr]
    ELSE [StatusJSON(st, 500, "Context.Error", ErrInternalError) EXCEPT !.err = NilErr]

\* HandleError (errors.go)
HandleError(st, err) ==
    LET appErr == AsAppError(err)
    IN  [StatusJSON(st, appErr.status, "HandleError", appErr) EXCEPT !.err = NilErr]

\* defaultErrorHandler (app.go), the transport's ErrorHandler
defaultErrorHandler(st) ==
    LET code == IF st.err.kind = "fiber" THEN st.err.status ELSE 500
    IN  StatusJSON(st, code, "defaultErrorHandler", st.err)

\* what the handler method does with this request
Outcomes ==
    {[how |-> "json", err |-> NilErr]}
    \cup {[how |-> "return", err |-> e] :
             e \in {ErrNotFound, WithCode(NewAppError(422), "validation"),
                    PlainErr, FiberErr(400)}}
    \cup {[how |-> "ctxError", err |-> e] :
             e \in {ErrNotFound, WithCode(NewAppError(422), "validation")}}
    \cup {[how |-> "handleError", err |-> e] : e \in {ErrNotFound, PlainErr}}

\* the handler method itself, invoked through reflection
Terminal(st, ctrl, name, outcome) ==
    LET s1 == [Invoked(st, "T") EXCEPT !.log = Append(@, CallEvent(ctrl, name))]
        s2 == [s1 EXCEPT !.yielded = outcome.err]
    IN  CASE outcome.how = "json" ->
               [s1 EXCEPT !.body = [by |-> "T", ctrl |-> ctrl, name |-> name,
                                    of |-> NilErr],
                          !.err = NilErr]
          [] outcome.how = "return" -> [s2 EXCEPT !.err = outcome.err]
          [] outcome.how = "ctxError" -> ContextError(s2, outcome.err)
          [] outcome.how = "handleError" -> HandleError(s2, outcome.err)

(***************************************************************************)
(* Middleware (middleware.go): the ones the model installs                 *)
(*   A, B  run code before and after next (RequestLogger)                  *)
(*   N     writes a response and returns nil without calling next          *)
(*         (CORS on an OPTIONS request)                                    *)
(*   E     returns ErrUnauthorized without calling next (RequireAuth)      *)
(***************************************************************************)
Middlewares == {"A", "B", "N", "E"}
CallsNext(m) == m \in {"A", "B"}
\* the part of a short-circuiting middleware after its entry
ShortCircuit(st, m) ==
    IF m = "N"
    THEN [StatusJSON(st, 204, m, NilErr) EXCEPT !.err = NilErr]
    ELSE [st EXCEPT !.err = ErrUnauthorized, !.yielded = ErrUnauthorized]

(***************************************************************************)
(* Controller.registerRoute (controller.go): the route closure             *)
(***************************************************************************)
\* a HandlerFunc value: the wrappers around finalHandler, outermost first
finalHandler == <<>>
Wrap(m, chain) == <<m>> \o chain

\* variant: the loop runs forwards over c.middleware
RECURSIVE ComposeForwardFrom(_, _, _)
ComposeForwardFrom(middleware, i, chain) ==
    IF i > Len(middleware) THEN chain
    ELSE ComposeForwardFrom(middleware, i + 1, Wrap(middleware[i], chain))
ComposeForward(middleware) == ComposeForwardFrom(middleware, 1, finalHandler)

\* for i := len(c.middleware) - 1; i >= 0; i-- { chain = c.middleware[i](chain) }
RECURSIVE ComposeFrom(_, _, _)
ComposeFrom(middleware, i, chain) ==
    IF i < 1 THEN chain
    ELSE ComposeFrom(middleware, i - 1, Wrap(middleware[i], chain))
Compose(middleware) == ComposeFrom(middleware, Len(middleware), finalHandler)

\* chain(fluxCtx)
RECURSIVE RunChain(_, _, _, _, _)
RunChain(chain, ctrl, name, st, outcome) ==
    IF chain = finalHandler THEN Terminal(st, ctrl, name, outcome)
    ELSE LET m == Head(chain)
             entered == Logged(Invoked(st, m), m, "before")
         IN  IF CallsNext(m)
             THEN Logged(RunChain(Tail(chain), ctrl, name, entered, outcome), m, "after")
             ELSE ShortCircuit(entered, m)

\* the closure bound to the transport: with no middleware finalHandler runs
\* directly
RouteClosure(middleware, ctrl, name, st, outcome) ==
    IF Len(middleware) > 0
    THEN RunChain(Compose(middleware), ctrl, name, st, outcome)
    ELSE Terminal(st, ctrl, name, outcome)

\* the closure served on its own: an error it returns goes to the
\* transport's ErrorHandler
ServeClosure(middleware, outcome) ==
    LET st == RouteClosure(middleware, "", sEmpty, StartState, outcome)
    IN  IF st.err # NilErr THEN defaultErrorHandler(st) ELSE st

NoReq == [served |-> FALSE, method |-> sEmpty, path |-> sEmpty,
          outcome |-> [how |-> "json", err |-> NilErr]]
NoResp == [status |-> 0, body |-> NoBody, yielded |-> NilErr, apps |-> <<>>]
RespOf(st) == [status |-> st.status, body |-> st.body, yielded |-> st.yielded,
               apps |-> st.apps]
\* req, log and resp observe requests under the configuration in force
ForgetRequest == req' = NoReq /\ log' = <<>> /\ resp' = NoResp

(***************************************************************************)
(* Controllers the model registers.  reflect lists a type's methods sorted *)
(* by name; the methods promoted from the embedded flux.Controller (App,   *)
(* ..., Use) are in the list and carry no Handle prefix.                   *)
(***************************************************************************)
\* the words handler and controller names are made of
tUser == <<"U","s","e","r">>
tUsers == <<"U","s","e","r","s">>
tItem == <<"I","t","e","m">>
tHello == <<"H","e","l","l","o">>
tPosts == <<"P","o","s","t","s">>
tById == <<"B","y","I","d">>
tIndex == <<"I","n","d","e","x">>
tCreate == <<"C","r","e","a","t","e">>
tUpdate == <<"U","p","d","a","t","e">>
tLowS == <<"s">>
tLowAway == <<"a","w","a","y">>
tLowGet == <<"g","e","t">>
tID == <<"I","D">>
tV2 == <<"V","2">>
tEtat == <<"É","t","a","t">>
mApp == <<"A","p","p">>
mUse == <<"U","s","e">>
\* the exported methods of *flux.Controller, promoted to every struct that
\* embeds it, as reflect lists them around the Handle* methods
PromotedBeforeHandle ==
    <<mApp,
      <<"G","e","t","R","o","u","t","e","B","y","N","a","m","e">>,
      <<"G","e","t","R","o","u","t","e","s">>,
      <<"G","r","o","u","p">>>>
PromotedAfterHandle ==
    <<<<"N","a","m","e">>,
      <<"R","e","g","i","s","t","e","r","R","o","u","t","e">>,
      <<"R","e","g","i","s","t","e","r","R","o","u","t","e","s">>,
      <<"S","e","t","A","p","p","l","i","c","a","t","i","o","n">>,
      <<"S","e","t","N","a","m","e">>,
      mUse>>

\* scaffold.go generateController: the five handlers generated for a resource
ScaffoldMethods(resource) ==
    <<sHandle \o tCreate \o resource,
      sHandle \o sDelete \o resource,
      sHandle \o sGet \o resource \o tById,
      sHandle \o sGet \o resource \o tLowS,
      sHandle \o tUpdate \o resource>>
\* the "// Route:" comment generated above each of them, in the same order
ScaffoldDocRoutes(resource) ==
    LET base == sSlash \o ToLower(resource)
    IN  <<[method |-> POST, path |-> base],
          [method |-> DELETE, path |-> base \o sSlashId],
          [method |-> GET, path |-> base \o sSlashId],
          [method |-> GET, path |-> base],
          [method |-> PUT, path |-> base \o sSlashId]>>

\* "hello": testing/hello HelloController; "readme": the UserController of
\* README.md; "item": a scaffolded ItemController; "bare": &flux.Controller{}
UserControllers == {"hello", "readme", "item"}
Controllers == UserControllers \cup {"bare"}

TypeName(c) ==
    CASE c = "hello" -> tHello \o sController
      [] c = "readme" -> tUser \o sController
      [] c = "item" -> tItem \o sController
      [] c = "bare" -> sController

MethodsOf(c) ==
    PromotedBeforeHandle
    \o (CASE c = "hello" -> <<sHandle \o sGet \o tHello>>
          [] c = "readme" ->
                <<sHandle \o sDelete \o tUser,
                  sHandle \o sGet \o tUser \o tPosts,
                  sHandle \o sGet \o tUser \o tLowS,
                  sHandle \o sPost \o tUser,
                  sHandle \o sPut \o tUser \o tById>>
          [] c = "item" -> ScaffoldMethods(tItem)
          [] c = "bare" -> <<>>)
    \o PromotedAfterHandle

\* controller.(*Controller) succeeds only for a *flux.Controller itself
IsPlainController(c) == c = "bare"

(***************************************************************************)
(* The transport (fiber): a stack of routes in registration order          *)
(***************************************************************************)
NoHandler == [kind |-> "", ctrl |-> "", name |-> sEmpty, mw |-> ""]
RouteEntry(method, path, h) == [use |-> FALSE, method |-> method, path |-> path, h |-> h]
UseEntry(prefix, h) == [use |-> TRUE, method |-> sEmpty, path |-> prefix, h |-> h]

\* app.server.Use(h) for a fiber handler that does its work around c.Next():
\* recover, the request logger, cors on a request that carries no Origin
\* header, SecurityHeaders, requestid, compress, the limiter below its
\* maximum, the tracing closure
ServerUse(mw) == UseEntry(sSlash, [NoHandler EXCEPT !.kind = "serverUse", !.mw = mw])

\* New (app.go 149-165, 220): the four middleware, then the welcome page
InitialStack ==
    <<ServerUse("recover"), ServerUse("logger"), ServerUse("cors"),
      ServerUse("SecurityHeaders"),
      RouteEntry(GET, sSlash, [NoHandler EXCEPT !.kind = "welcome"])>>

SevenMethods == {GET, POST, PUT, DELETE, PATCH, OPTIONS, HEAD}

\* createHandlerFunc(method, controllerValue)
createHandlerFunc(c, name) ==
    [kind |-> "createHandlerFunc", ctrl |-> c, name |-> name, mw |-> ""]

\* RegisterController: basePath and routeInfo of one method
RouteFor(c, name) ==
    parseRouteFromMethodName(name, BasePathOf(TypeName(c)))

\* RegisterController: the loop over the controller's methods
RECURSIVE RegisterMethodsFrom(_, _, _)
RegisterMethodsFrom(c, i, stk) ==
    IF i > Len(MethodsOf(c)) THEN stk
    ELSE LET name == MethodsOf(c)[i]
             routeInfo == RouteFor(c, name)
         IN  IF ~HasPrefix(name, sHandle)
             THEN RegisterMethodsFrom(c, i + 1, stk)
             ELSE IF routeInfo.HTTPMethod \in SevenMethods
             THEN RegisterMethodsFrom(c, i + 1,
                      Append(stk, RouteEntry(routeInfo.HTTPMethod, routeInfo.Path,
                                             createHandlerFunc(c, name))))
             ELSE RegisterMethodsFrom(c, i + 1, stk)

RegisterControllerStack(c, stk) == RegisterMethodsFrom(c, 1, stk)

\* RouteManager.Add(method, path, handlerName, description): the entry is
\* stored under its (method, path), in place of an earlier one (section 4.2
\* of the specification; the RouteManager's file is not among the sources)
RouteTableAdd(table, method, path, handlerName) ==
    [k \in DOMAIN table \cup {<<method, path>>} |->
        IF k = <<method, path>> THEN handlerName ELSE table[k]]

\* RegisterController: the app.routes.Add calls of the loop (317-322)
RECURSIVE RoutesAddedFrom(_, _, _)
RoutesAddedFrom(c, i, table) ==
    IF i > Len(MethodsOf(c)) THEN table
    ELSE LET name == MethodsOf(c)[i]
             routeInfo == RouteFor(c, name)
         IN  IF ~HasPrefix(name, sHandle)
             THEN RoutesAddedFrom(c, i + 1, table)
             ELSE RoutesAddedFrom(c, i + 1,
                      RouteTableAdd(table, routeInfo.HTTPMethod, routeInfo.Path,
                                    TypeName(c) \o <<".">> \o name))
RoutesAdded(c, table) == RoutesAddedFrom(c, 1, table)

\* GenerateRouteFiles (387-400): the routes directory is made and the routes
\* file is written from the table.  An error of the file system is returned
\* to RegisterController, which logs it and goes on (343-345); the model's
\* file system takes every write.
GenerateRouteFiles(table) == table

\* splitCamelCase (controller.go)
RECURSIVE splitCamelCaseFrom(_, _, _, _)
splitCamelCaseFrom(str, i, parts, current) ==
    IF i > Len(str)
    THEN IF Len(current) > 0 THEN Append(parts, current) ELSE parts
    ELSE IF i > 1 /\ IsUpperAZ(str[i])
    THEN splitCamelCaseFrom(str, i + 1, Append(parts, current), <<str[i]>>)
    ELSE splitCamelCaseFrom(str, i + 1, parts, Append(current, str[i]))
splitCamelCase(str) == splitCamelCaseFrom(str, 1, <<>>, <<>>)

RECURSIVE JoinWith(_, _)
JoinWith(parts, sep) ==
    IF parts = <<>> THEN <<>>
    ELSE IF Len(parts) = 1 THEN parts[1]
    ELSE parts[1] \o sep \o JoinWith(Tail(parts), sep)

\* Controller.registerRoute: method and path from the method name
registerRouteInfo(name) ==
    LET parts == splitCamelCase(TrimPrefix(name, sHandle))
    IN  [HTTPMethod |-> IF Len(parts) > 0 THEN ToUpper(parts[1]) ELSE sEmpty,
         Path |-> IF Len(parts) > 1
                  THEN sSlash \o ToLower(JoinWith(Tail(parts), sSlash))
                  ELSE sEmpty]

\* Controller.RegisterRoutes(router): reflect.TypeOf(c) is *flux.Controller
\* whatever struct embeds it, so the methods scanned are those of "bare"
RECURSIVE RegisterRoutesFrom(_, _, _, _)
RegisterRoutesFrom(c, prefix, i, stk) ==
    IF i > Len(MethodsOf("bare")) THEN stk
    ELSE LET name == MethodsOf("bare")[i]
             info == registerRouteInfo(name)
             h == [kind |-> "registerRoute", ctrl |-> c, name |-> name, mw |-> ""]
         IN  IF HasPrefix(name, sHandle) /\ info.HTTPMethod \in SevenMethods
             THEN RegisterRoutesFrom(c, prefix, i + 1,
                      Append(stk, RouteEntry(info.HTTPMethod, prefix \o info.Path, h)))
             ELSE RegisterRoutesFrom(c, prefix, i + 1, stk)
RegisterRoutes(c, prefix, stk) == RegisterRoutesFrom(c, prefix, 1, stk)

\* Route.match for the patterns registration produces: a literal path, or a
\* path ending in the parameter segment :id
PathMatch(pattern, path) ==
    IF HasSuffix(pattern, sSlashId)
    THEN LET base == TrimSuffix(pattern, sSlashId) \o sSlash
             rest == TrimPrefix(path, base)
         IN  /\ HasPrefix(path, base)
             /\ rest # sEmpty
             /\ ~Contains(rest, sSlash)
    ELSE pattern = path

Matches(entry, rq) ==
    IF entry.use THEN entry.path = sSlash \/ HasPrefix(rq.path, entry.path)
    ELSE entry.method = rq.method /\ PathMatch(entry.path, rq.path)

\* App.methodExist: another method has a route for this path
MethodExist(stk, rq) ==
    \E j \in DOMAIN stk :
        /\ ~stk[j].use
        /\ stk[j].method # rq.method
        /\ PathMatch(stk[j].path, rq.path)

\* the group closure reads mw after the loop has ended when the build gives
\* the loop one variable for all iterations
GroupUseHandler(mw) == [kind |-> "groupUse", ctrl |-> "", name |-> sEmpty, mw |-> mw]

\* createHandlerFunc: ctx := &Context{Ctx: c} leaves the app field nil
DispatcherContextApp == FALSE

\* Ctx.Next / App.next: run the next matching route after st.idx, or return
\* 404 (405 when only other methods match and nothing but middleware ran)
RECURSIVE AppNext(_, _, _, _, _)
RECURSIVE RunHandler(_, _, _, _, _, _)
AppNext(stk, mws, rq, st, outcome) ==
    LET later == {j \in DOMAIN stk : j > st.idx /\ Matches(stk[j], rq)}
    IN  IF later = {}
        THEN [st EXCEPT !.idx = Len(stk),
                        !.err = IF ~st.matched /\ MethodExist(stk, rq)
                                THEN FiberErr(405) ELSE FiberErr(404)]
        ELSE LET j == CHOOSE k \in later : \A l \in later : k <= l
             IN  RunHandler(stk, mws, stk[j].h, rq,
                            [st EXCEPT !.idx = j,
                                       !.matched = @ \/ ~stk[j].use],
                            outcome)

RunHandler(stk, mws, h, rq, st, outcome) ==
    CASE h.kind = "welcome" ->
           [st EXCEPT !.body = [by |-> "welcome", ctrl |-> "", name |-> sEmpty,
                                of |-> NilErr],
                      !.err = NilErr]
      [] h.kind = "serverUse" ->
           \* the handler's own work, and c.Next()
           AppNext(stk, mws, rq, st, outcome)
      [] h.kind \in {"health", "metrics"} ->
           \* return c.JSON(...)
           [st EXCEPT !.body = [by |-> h.kind, ctrl |-> "", name |-> sEmpty,
                                of |-> NilErr],
                      !.err = NilErr]
      [] h.kind = "microserviceRoute" ->
           \* ctx := NewContext(c, app); return route.Handler(ctx)
           Terminal(WithContext(st, TRUE), h.ctrl, h.name, outcome)
      [] h.kind = "createHandlerFunc" ->
           \* ctx := &Context{Ctx: c}; method.Func.Call(controller, ctx)
           Terminal(WithContext(st, DispatcherContextApp), h.ctrl, h.name, outcome)
      [] h.kind = "registerRoute" ->
           \* the closure of Controller.registerRoute, reading c.middleware now
           \* fluxCtx := NewContext(ctx, c.app)
           RouteClosure(mws[h.ctrl].middleware, h.ctrl, h.name,
                        WithContext(st, mws[h.ctrl].app), outcome)
      [] h.kind = "groupUse" ->
           \* wrapped := mw(func(ctx) { return ctx.Next() }); err = wrapped(fluxCtx)
           \* if err != nil { return err }; return c.Next()
           \* fluxCtx := NewContext(c, app)
           LET entered == Logged(Invoked(WithContext(st, TRUE), h.mw), h.mw, "before")
               s1 == IF CallsNext(h.mw)
                     THEN Logged(AppNext(stk, mws, rq, entered, outcome), h.mw, "after")
                     ELSE ShortCircuit(entered, h.mw)
           IN  IF s1.err # NilErr THEN s1 ELSE AppNext(stk, mws, rq, s1, outcome)

\* App.handler: dispatch from the top of the stack; a returned error goes to
\* the ErrorHandler
ServeHTTP(stk, mws, rq, outcome) ==
    LET st == AppNext(stk, mws, rq, StartState, outcome)
    IN  IF st.err # NilErr THEN defaultErrorHandler(st) ELSE st

HandlerCalled(l) == \E i \in DOMAIN l : l[i].ev = "call"

(***************************************************************************)
(* Handler names and controller type names the model draws its inputs from *)
(***************************************************************************)

\* what may follow Handle: a verb, nothing, or a word that is no verb
FirstTokens == {sEmpty, sGet, sPost, sPut, sDelete, sPatch, sOptions, sHead,
                tCreate, tUpdate, tLowGet}
\* the words of the action part
WordTokens == {tUser, tUsers, tHello, tPosts, tById, tIndex, tLowS, tLowAway, sPost,
               tID, tV2, tEtat}

MaxWords == 2

RECURSIVE WordSeqs(_)
WordSeqs(n) ==
    IF n = 0 THEN {<<>>}
    ELSE LET shorter == WordSeqs(n - 1)
         IN  shorter \cup {Append(ws, w) : ws \in {x \in shorter : Len(x) = n - 1},
                                           w \in WordTokens}

HandlerNames ==
    {sHandle \o first \o Concat(ws) : first \in FirstTokens, ws \in WordSeqs(MaxWords)}

ControllerTypeNames ==
    {tUser \o sController, tHello \o sController, tItem \o sController, tUsers}

\* GetRouteByName has not been called since the route set last changed
NoFound == [asked |-> FALSE, name |-> "", route |-> 0]

NoRoute == [done |-> FALSE, HTTPMethod |-> sEmpty, Path |-> sEmpty]

(***************************************************************************)
(* SpecParse: RegisterController's loop body applied to one method name    *)
(***************************************************************************)
InitIdleApp ==
    /\ cMw = <<>> /\ cApp = <<>> /\ gPrefix = sEmpty /\ gMw = <<>> /\ gCtrls = <<>>
    /\ gDone = FALSE /\ gPos = 0 /\ appCtrls = <<>> /\ stack = <<>>
    /\ appRoutes = <<>> /\ routesFile = <<>> /\ appSetup = 0
    /\ loopVarPerIter = FALSE
InitIdleReq == req = NoReq /\ log = <<>> /\ resp = NoResp
InitIdleChain == chMw = <<>>
InitIdleRoutes == rObjs = <<>> /\ rMap = <<>> /\ rFound = NoFound
NoScript == [result |-> NilErr, panic |-> "", work |-> 0]
MainIdle == [pc |-> "idle", ret |-> NilErr, by |-> "", escaped |-> FALSE]
HandNone == [pc |-> "none", left |-> 0]
NoCtxUse == [writes |-> 0, late |-> FALSE]
InitIdleTimeout ==
    /\ tCfg = [recover |-> FALSE, timeout |-> FALSE, app |-> FALSE, d |-> 0]
    /\ tReq = NoScript /\ tMain = MainIdle /\ tHand = HandNone
    /\ tClock = 0 /\ tCtx = NoCtxUse /\ tCrashed = FALSE
MuFree == [writer |-> FALSE, readers |-> 0]
InitIdleLock == lkMu = MuFree /\ lkWriters = {} /\ lkReaders = 0
NoDecls == <<>>
NoType == [kind |-> "none"]
NoSchema == [type |-> "none"]
InitIdleSchema ==
    scDecls = NoDecls /\ scRoot = NoType /\ scStack = <<>> /\ scResult = NoSchema
NoConfig == [max |-> 0, window |-> 0]
NoAnswer == [served |-> FALSE, now |-> 0, admitted |-> FALSE, remaining |-> 0]
InitIdleRate ==
    /\ rlCfg = NoConfig /\ rlClock = 0 /\ rlClients = <<>> /\ rlData = 0
    /\ rlSweep = <<>> /\ rlReqs = <<>>
    /\ rlAdmitted = <<>> /\ rlLast = NoAnswer
Missing == <<"redis.Nil">>
InitIdleCache == caStore = Missing /\ caCalls = <<>> /\ caReturned = Missing
InitIdleQueue ==
    /\ quList = <<>> /\ quJobs = <<>> /\ quRuns = <<>> /\ quIds = 0
    /\ quClock = 0 /\ quEnq = <<>> /\ quWorkers = <<>>
InitIdleErrors ==
    erObjs = <<>> /\ erMaps = <<>> /\ erWriting = <<>> /\ erCrashed = FALSE
InitIdleLib ==
    /\ InitIdleSchema /\ InitIdleRate /\ InitIdleCache /\ InitIdleQueue
    /\ InitIdleErrors
InitIdleExt == InitIdleRoutes /\ InitIdleTimeout /\ InitIdleLock /\ InitIdleLib
InitIdleParse == pCtrl = sEmpty /\ pName = sEmpty /\ pRoute = NoRoute

InitParse ==
    /\ pCtrl \in ControllerTypeNames
    /\ pName \in HandlerNames
    /\ pRoute = NoRoute
    /\ InitIdleApp /\ InitIdleReq /\ InitIdleChain /\ InitIdleExt

\* app.go 301, 310: basePath, then routeInfo := parseRouteFromMethodName(...)
ParseRoute ==
    /\ ~pRoute.done
    /\ HasPrefix(pName, sHandle)
    /\ pRoute' = [done |-> TRUE] @@ parseRouteFromMethodName(pName, BasePathOf(pCtrl))
    /\ UNCHANGED <<extVars, pCtrl, pName, appVars, reqVars, chainVars>>

NextParse == ParseRoute

SpecParse == InitParse /\ [][NextParse]_vars

(***************************************************************************)
(* The naming convention as the specification words it (section 4.1),      *)
(* written independently of the loops above                                *)
(***************************************************************************)
\* step 2: the verbs that are a case-sensitive prefix of the remainder
MatchingVerbs(rem) == {i \in DOMAIN VerbList : HasPrefix(rem, VerbList[i])}
LongestVerb(rem) ==
    CHOOSE i \in MatchingVerbs(rem) :
        \A j \in MatchingVerbs(rem) : Len(VerbList[j]) <= Len(VerbList[i])
ConvMethod(rem) ==
    IF MatchingVerbs(rem) = {} THEN GET ELSE ToUpper(VerbList[LongestVerb(rem)])
ConvAction(rem) ==
    IF MatchingVerbs(rem) = {} THEN rem
    ELSE SubSeq(rem, Len(VerbList[LongestVerb(rem)]) + 1, Len(rem))

\* step 3: split before every upper-case letter except at position 0
WordStarts(a) == {i \in DOMAIN a : i = 1 \/ IsUpper(a[i])}
ConvWords(a) ==
    LET starts == WordStarts(a)
        kth(k) == CHOOSE i \in starts : Cardinality({j \in starts : j < i}) = k - 1
        last(k) == IF k = Cardinality(starts) THEN Len(a) ELSE kth(k + 1) - 1
    IN  [k \in 1..Cardinality(starts) |-> SubSeq(a, kth(k), last(k))]
RECURSIVE HyphenJoin(_)
HyphenJoin(ws) ==
    IF ws = <<>> THEN <<>>
    ELSE IF Len(ws) = 1 THEN ToLower(ws[1])
    ELSE ToLower(ws[1]) \o <<"-">> \o HyphenJoin(Tail(ws))
ConvFragment(rem) == HyphenJoin(ConvWords(ConvAction(rem)))

\* the path rule as C10 words it: no by-id case
ConvPathPlain(base, frag) ==
    IF frag = sEmpty \/ frag = sIndexLower THEN base ELSE base \o sSlash \o frag
pRem == TrimPrefix(pName, sHandle)
pBase == BasePathOf(pCtrl)
Name2(a, b) == sHandle \o a \o b
Name3(a, b, c) == sHandle \o a \o b \o c
UserControllerName == tUser \o sController
pathUser == <<"/","u","s","e","r">>

\* C7: a fragment that contains by-id anywhere gives the path <base>/:id and
\* the verb's method; HandleGetUserById and HandlePutUserById on
\* UserController give (GET, /user/:id) and (PUT, /user/:id).
C7_ByIdGivesIdPath ==
    pRoute.done =>
        /\ Contains(ConvFragment(pRem), sById) =>
               /\ pRoute.Path = pBase \o sSlashId
               /\ pRoute.HTTPMethod = ConvMethod(pRem)
        /\ (pCtrl = UserControllerName /\ pName = Name3(sGet, tUser, tById)) =>
               (pRoute.HTTPMethod = GET /\ pRoute.Path = pathUser \o sSlashId)
        /\ (pCtrl = UserControllerName /\ pName = Name3(sPut, tUser, tById)) =>
               (pRoute.HTTPMethod = PUT /\ pRoute.Path = pathUser \o sSlashId)

\* a by-id fragment with other segments around it has been parsed
C7_Witness ==
    /\ pRoute.done
    /\ pCtrl = UserControllerName
    /\ pName = Name3(sPut, tUser, tById)
    /\ ConvFragment(pRem) = <<"u","s","e","r","-","b","y","-","i","d">>
    /\ pRoute.Path = <<"/","u","s","e","r","/",":","i","d">>

\* C8: on UserController, HandleGetUsers is GET /user, HandlePostUser is
\* POST /user, HandleDeleteUser is DELETE /user and HandleGetUserPosts is
\* GET /user/posts.
C8_ResourceNameAddsNoSegment ==
    (pRoute.done /\ pCtrl = UserControllerName) =>
        /\ pName = Name2(sGet, tUsers) =>
               (pRoute.HTTPMethod = GET /\ pRoute.Path = pathUser)
        /\ pName = Name2(sPost, tUser) =>
               (pRoute.HTTPMethod = POST /\ pRoute.Path = pathUser)
        /\ pName = Name2(sDelete, tUser) =>
               (pRoute.HTTPMethod = DELETE /\ pRoute.Path = pathUser)
        /\ pName = Name3(sGet, tUser, tPosts) =>
               (pRoute.HTTPMethod = GET
                /\ pRoute.Path = pathUser \o <<"/","p","o","s","t","s">>)

\* C10: for every name starting with Handle and every base path the method
\* is the one matching verb, upper-cased and stripped (GET with nothing
\* stripped when none matches), the fragment is the remainder split before
\* every upper-case letter except at position 0, lower-cased and
\* hyphen-joined, and the path is <base> for an empty or index fragment and
\* <base>/<fragment> otherwise, so that HandlePostUser on base user gives
\* (POST, /user/user).  The names whose fragment holds by-id, for which
\* step 4 of the convention gives <base>/:id, are left to C7.
C10_MatchesConvention ==
    (pRoute.done /\ ~Contains(ConvFragment(pRem), sById)) =>
        /\ Cardinality(MatchingVerbs(pRem)) <= 1
        /\ pRoute.HTTPMethod = ConvMethod(pRem)
        /\ pRoute.Path = ConvPathPlain(pBase, ConvFragment(pRem))
        /\ (pCtrl = UserControllerName /\ pName = Name2(sPost, tUser)) =>
               (pRoute.HTTPMethod = POST
                /\ pRoute.Path = <<"/","u","s","e","r","/","u","s","e","r">>)

(***************************************************************************)
(* SpecCompose: a controller's middleware list and its route closure       *)
(***************************************************************************)
MaxChain == 3

InitCompose ==
    /\ chMw = <<>>
    /\ InitIdleParse /\ InitIdleApp /\ InitIdleReq /\ InitIdleExt

\* Controller.Use
ChainUse(m) ==
    /\ Len(chMw) < MaxChain
    /\ chMw' = Append(chMw, m)
    /\ ForgetRequest
    /\ UNCHANGED <<extVars, parseVars, appVars>>

\* one request served by the closure of Controller.registerRoute
ChainServe(outcome) ==
    LET st == ServeClosure(chMw, outcome)
    IN  /\ ~req.served
        /\ req' = [NoReq EXCEPT !.served = TRUE, !.outcome = outcome]
        /\ log' = st.log
        /\ resp' = RespOf(st)
        /\ UNCHANGED <<extVars, parseVars, appVars, chainVars>>

\* the client has read the response and is ready to send another request
ChainReadResponse ==
    /\ req.served
    /\ ForgetRequest
    /\ UNCHANGED <<extVars, parseVars, chainVars, appVars>>

NextCompose ==
    \/ \E m \in Middlewares : ChainUse(m)
    \/ \E o \in Outcomes : ChainServe(o)
    \/ ChainReadResponse

SpecCompose == InitCompose /\ [][NextCompose]_vars

\* m1(m2(...mn(T))) evaluated from the outside in: the call order of the
\* onion whose layers are ms, around terminal T
RECURSIVE Onion(_)
Onion(ms) ==
    IF ms = <<>> THEN <<CallEvent("", sEmpty)>>
    ELSE IF CallsNext(Head(ms))
    THEN <<Event(Head(ms), "before")>> \o Onion(Tail(ms)) \o <<Event(Head(ms), "after")>>
    ELSE <<Event(Head(ms), "before")>>

Befores(ms) == [i \in DOMAIN ms |-> Event(ms[i], "before")]
Afters(ms) == [i \in DOMAIN ms |-> Event(ms[Len(ms) + 1 - i], "after")]
AllCallNext(ms) == \A i \in DOMAIN ms : CallsNext(ms[i])

\* C2: the composed handler is m1(m2(...mn(T))): on every request the call
\* order is m1-before, ..., mn-before, T, mn-after, ..., m1-after.
C2_OnionOrder ==
    req.served =>
        /\ log = Onion(chMw)
        /\ AllCallNext(chMw) =>
               log = Befores(chMw) \o <<CallEvent("", sEmpty)>> \o Afters(chMw)

\* a request went through two different middleware around the terminal
C2_Witness ==
    /\ req.served
    /\ chMw = <<"A", "B">>
    /\ log = <<Event("A", "before"), Event("B", "before"), CallEvent("", sEmpty),
               Event("B", "after"), Event("A", "after")>>

(***************************************************************************)
(* Spec: an application, user controllers registered with                  *)
(* RegisterController, and requests served by the transport                *)
(***************************************************************************)
MaxUse == 1
MaxRegs == 2
MaxSetup == 1

pathHello == <<"/","h","e","l","l","o">>
pathItem == <<"/","i","t","e","m">>
segUsers == <<"/","u","s","e","r","s">>
segPosts == <<"/","p","o","s","t","s">>
segUserPosts == <<"/","u","s","e","r","-","p","o","s","t","s">>
segSeven == <<"/","7">>
segItems == <<"/","i","t","e","m","s">>
segCreateItem == <<"/","c","r","e","a","t","e","-","i","t","e","m">>
segUpdateItem == <<"/","u","p","d","a","t","e","-","i","t","e","m">>
segApi == <<"/","a","p","i">>
pathHealth == <<"/","h","e","a","l","t","h">>
pathMetrics == <<"/","m","e","t","r","i","c","s">>

RequestMethods == {GET, POST, PUT, DELETE}
RequestPaths ==
    {sSlash, pathHealth,
     pathHello, pathHello \o pathHello,
     pathUser, pathUser \o segUsers, pathUser \o pathUser, pathUser \o segSeven,
     pathUser \o segPosts, pathUser \o segUserPosts,
     pathItem, pathItem \o segItems, pathItem \o pathItem, pathItem \o segSeven,
     pathItem \o segCreateItem, pathItem \o segUpdateItem,
     segApi \o pathUser \o segUsers}

DefaultOutcome == [how |-> "json", err |-> NilErr]

RECURSIVE SumLen(_, _)
SumLen(f, S) ==
    IF S = {} THEN 0
    ELSE LET c == CHOOSE x \in S : TRUE IN Len(f[c]) + SumLen(f, S \ {c})

InitApp ==
    /\ cMw = [c \in Controllers |-> <<>>]
    /\ cApp = [c \in Controllers |-> FALSE]
    /\ gMw = <<>> /\ gCtrls = <<>> /\ gDone = FALSE /\ gPos = 0
    /\ appCtrls = <<>>
    /\ appRoutes = <<>> /\ routesFile = <<>> /\ appSetup = 0
    /\ stack = InitialStack

Init ==
    /\ InitApp
    /\ gPrefix = sEmpty
    /\ loopVarPerIter \in BOOLEAN
    /\ InitIdleParse /\ InitIdleChain /\ InitIdleReq /\ InitIdleExt

\* Controller.Use, reached through the embedded flux.Controller; the client
\* configures a controller before it registers it, as README.md shows
ControllerUse(c, m) ==
    /\ ~cApp[c]
    /\ SumLen(cMw, Controllers) < MaxUse
    /\ cMw' = [cMw EXCEPT ![c] = Append(@, m)]
    /\ ForgetRequest
    /\ UNCHANGED <<extVars, parseVars, chainVars, cApp, gPrefix, gMw, gCtrls, gDone, gPos,
                   appCtrls, tableVars, appSetup, stack, loopVarPerIter>>

\* the calls that have installed handlers into the transport so far:
\* registrations and configuration calls together stay within MaxRegs
Installs == Len(appCtrls) + appSetup

\* Application.RegisterController (286-346), under app.mu
RegisterController(c) ==
    /\ Installs < MaxRegs
    /\ cApp' = [cApp EXCEPT ![c] = TRUE]
    /\ appCtrls' = Append(appCtrls, c)
    /\ stack' = RegisterControllerStack(c, stack)
    /\ appRoutes' = RoutesAdded(c, appRoutes)
    /\ routesFile' = GenerateRouteFiles(RoutesAdded(c, appRoutes))
    /\ ForgetRequest
    /\ UNCHANGED <<extVars, parseVars, chainVars, cMw, gPrefix, gMw, gCtrls, gDone, gPos,
                   appSetup, loopVarPerIter>>

\* every call that configures the transport counts against MaxSetup
CanSetup == appSetup < MaxSetup /\ Installs < MaxRegs
SetupDone ==
    /\ appSetup' = appSetup + 1
    /\ ForgetRequest
    /\ UNCHANGED <<extVars, parseVars, chainVars, cMw, cApp, gPrefix, gMw, gCtrls, gDone,
                   gPos, appCtrls, tableVars, loopVarPerIter>>

\* Application.Use(middleware...) (575-577) with one fiber handler that
\* calls c.Next()
AppUse(mw) ==
    /\ CanSetup
    /\ stack' = Append(stack, ServerUse(mw))
    /\ SetupDone

\* Application.AddTracing (587-614)
AddTracing ==
    /\ CanSetup
    /\ stack' = Append(stack, ServerUse("tracing"))
    /\ SetupDone

\* EnableHealthCheck(path) (661-702): "" stands for /health
HealthStack(path, stk) ==
    Append(stk, RouteEntry(GET, IF path = sEmpty THEN pathHealth ELSE path,
                           [NoHandler EXCEPT !.kind = "health"]))
EnableHealthCheck(path) ==
    /\ CanSetup
    /\ stack' = HealthStack(path, stack)
    /\ SetupDone

\* ConfigureMiddleware(options...) (704-787): the defaults, changed by the
\* options, decide which handlers are installed, in this order
DefaultMiddlewareConfig ==
    [Recover |-> TRUE, RequestID |-> TRUE, Compress |-> TRUE, CORS |-> TRUE,
     Logger |-> TRUE, RateLimit |-> FALSE]
MiddlewareConfigInputs ==
    {DefaultMiddlewareConfig,
     [DefaultMiddlewareConfig EXCEPT !.RateLimit = TRUE, !.Compress = FALSE,
                                     !.RequestID = FALSE]}
ConfigureMiddlewareStack(config, stk) ==
    stk \o (IF config.Recover THEN <<ServerUse("recover")>> ELSE <<>>)
        \o (IF config.RequestID THEN <<ServerUse("requestid")>> ELSE <<>>)
        \o (IF config.Compress THEN <<ServerUse("compress")>> ELSE <<>>)
        \o (IF config.CORS THEN <<ServerUse("cors")>> ELSE <<>>)
        \o (IF config.Logger THEN <<ServerUse("logger")>> ELSE <<>>)
        \o (IF config.RateLimit THEN <<ServerUse("limiter")>> ELSE <<>>)
ConfigureMiddleware(config) ==
    /\ CanSetup
    /\ stack' = ConfigureMiddlewareStack(config, stack)
    /\ SetupDone

\* Microservice.Setup (1023-1084) makes its Application with New and
\* configures it: the default middleware, then tracing, the health check,
\* the metrics route and the routes given with AddRoute, as configured
MicroserviceInputs ==
    {[EnableTracing |-> TRUE, HealthCheck |-> TRUE, Metrics |-> TRUE,
      routes |-> <<[Method |-> GET, Path |-> pathHello],
                   [Method |-> GET, Path |-> pathUser]>>],
     [EnableTracing |-> FALSE, HealthCheck |-> FALSE, Metrics |-> FALSE,
      routes |-> <<[Method |-> GET, Path |-> pathHello]>>]}
\* the closure of the loop (1075-1080) calls route.Handler: the route of its
\* own iteration, or, where the loop has one variable, the last route
RECURSIVE MicroserviceRoutesFrom(_, _, _, _)
MicroserviceRoutesFrom(routes, perIter, i, stk) ==
    IF i > Len(routes) THEN stk
    ELSE LET route == IF perIter THEN routes[i] ELSE routes[Len(routes)]
         IN  MicroserviceRoutesFrom(routes, perIter, i + 1,
                 Append(stk, RouteEntry(routes[i].Method, routes[i].Path,
                            [NoHandler EXCEPT !.kind = "microserviceRoute",
                                              !.ctrl = "microservice",
                                              !.name = route.Path])))
MicroserviceSetup(config) ==
    /\ CanSetup
    /\ stack = InitialStack /\ appCtrls = <<>>
    /\ LET s1 == ConfigureMiddlewareStack(DefaultMiddlewareConfig, stack)
           s2 == IF config.EnableTracing THEN Append(s1, ServerUse("tracing")) ELSE s1
           s3 == IF config.HealthCheck THEN HealthStack(pathHealth, s2) ELSE s2
           s4 == IF config.Metrics
                 THEN Append(s3, RouteEntry(GET, pathMetrics,
                                            [NoHandler EXCEPT !.kind = "metrics"]))
                 ELSE s3
       IN  stack' = MicroserviceRoutesFrom(config.routes, loopVarPerIter, 1, s4)
    /\ SetupDone

\* the fields of each controller its route closure reads when a request
\* arrives
ControllerState ==
    [c \in Controllers |-> [middleware |-> cMw[c], app |-> cApp[c]]]

\* Application.Test / the server: one request through the stack.  The
\* handler's behaviour is an input only when a handler method is reached.
Request(method, path, outcome) ==
    LET rq == [method |-> method, path |-> path]
        probe == ServeHTTP(stack, ControllerState, rq, DefaultOutcome)
        st == ServeHTTP(stack, ControllerState, rq, outcome)
    IN  /\ ~req.served
        /\ outcome = DefaultOutcome \/ HandlerCalled(probe.log)
        /\ req' = [served |-> TRUE, method |-> method, path |-> path,
                   outcome |-> outcome]
        /\ log' = st.log
        /\ resp' = RespOf(st)
        /\ UNCHANGED <<extVars, parseVars, chainVars, appVars>>

\* the client has read the response and is ready to send another request
ReadResponse ==
    /\ req.served
    /\ ForgetRequest
    /\ UNCHANGED <<extVars, parseVars, chainVars, appVars>>

Next ==
    \/ \E c \in UserControllers, m \in {"A", "E"} : ControllerUse(c, m)
    \/ \E c \in UserControllers : RegisterController(c)
    \/ AppUse("custom")
    \/ AddTracing
    \/ \E path \in {sEmpty, pathUser} : EnableHealthCheck(path)
    \/ \E config \in MiddlewareConfigInputs : ConfigureMiddleware(config)
    \/ \E config \in MicroserviceInputs : MicroserviceSetup(config)
    \/ \E method \in RequestMethods, path \in RequestPaths, o \in Outcomes :
          Request(method, path, o)
    \/ ReadResponse

Spec == Init /\ [][Next]_vars

Registered(c) == \E i \in DOMAIN appCtrls : appCtrls[i] = c
HandleGetHello == sHandle \o sGet \o tHello

\* C1: once HelloController (only HandleGetHello) is registered, GET /hello
\* is dispatched to HandleGetHello and answered 200 with the body it wrote.
C1_HelloServedAtHello ==
    (req.served /\ Registered("hello") /\ req.method = GET /\ req.path = pathHello
       /\ req.outcome = DefaultOutcome) =>
        /\ resp.status = 200
        /\ resp.body = [by |-> "T", ctrl |-> "hello", name |-> HandleGetHello,
                        of |-> NilErr]
        /\ log = <<CallEvent("hello", HandleGetHello)>>

\* C4: on every request that reaches a handler method of a controller, each
\* middleware the controller was given with Use before it was registered has
\* been entered, in declaration order, before the method is invoked.
C4_ControllerMiddlewareApplied ==
    req.served =>
        \A i \in DOMAIN log :
            (log[i].ev = "call" /\ log[i].ctrl \in UserControllers) =>
                SubSeq(log, 1, i - 1) = Befores(cMw[log[i].ctrl])

\* C6: a yielded AppError e is answered with status e.StatusCode; a 500
\* answers only errors that are no AppError (or an AppError whose status is
\* 500).
C6_AppErrorStatus ==
    req.served =>
        /\ resp.yielded.kind = "app" => resp.status = resp.yielded.status
        /\ (resp.yielded # NilErr /\ resp.status = 500) =>
               (resp.yielded.kind = "plain" \/ resp.yielded.status = 500)

\* C9: after RegisterController, each handler of the scaffolded controller
\* is bound at the route its generated comment documents.
C9_ScaffoldServedAsDocumented ==
    Registered("item") =>
        \A k \in DOMAIN ScaffoldMethods(tItem) :
            \E j \in DOMAIN stack :
                /\ ~stack[j].use
                /\ stack[j].h.ctrl = "item"
                /\ stack[j].h.name = ScaffoldMethods(tItem)[k]
                /\ stack[j].method = ScaffoldDocRoutes(tItem)[k].method
                /\ stack[j].path = ScaffoldDocRoutes(tItem)[k].path

(***************************************************************************)
(* SpecGroup: a ControllerGroup built with Group(prefix).Use(...).Add(...) *)
(* and registered with Register(app), next to RegisterController           *)
(***************************************************************************)
MaxGroupMw == 2
MaxGroupCtrls == 2

GroupPrefixes == {segApi, pathUser}
GroupMiddlewares == {"A", "N", "E"}
GroupControllers == {"readme", "bare"}
GroupRequestPaths ==
    {pathUser, pathUser \o segUsers, pathUser \o segSeven,
     segApi, segApi \o pathUser \o segUsers, segApi \o pathUser \o segSeven}

\* (&flux.Controller{}).Group(prefix): the group starts with the middleware
\* of a fresh controller, none.  The build decides whether the range loop of
\* Register gives each iteration its own mw variable.
InitGroup ==
    /\ InitApp
    /\ gPrefix \in GroupPrefixes
    /\ loopVarPerIter \in BOOLEAN
    /\ InitIdleParse /\ InitIdleChain /\ InitIdleReq /\ InitIdleExt

InGroup(c) == \E i \in DOMAIN gCtrls : gCtrls[i] = c

\* ControllerGroup.Use
GroupUse(m) ==
    /\ ~gDone /\ gPos = 0
    /\ Len(gMw) < MaxGroupMw
    /\ gMw' = Append(gMw, m)
    /\ ForgetRequest
    /\ UNCHANGED <<extVars, parseVars, chainVars, cMw, cApp, gPrefix, gCtrls, gDone, gPos,
                   appCtrls, tableVars, appSetup, stack, loopVarPerIter>>

\* ControllerGroup.Add: only a *flux.Controller receives the middleware
GroupAdd(c) ==
    /\ ~gDone /\ gPos = 0
    /\ Len(gCtrls) < MaxGroupCtrls
    /\ ~InGroup(c) /\ ~Registered(c)
    /\ gCtrls' = Append(gCtrls, c)
    /\ cMw' = IF IsPlainController(c)
              THEN [cMw EXCEPT ![c] = @ \o gMw]
              ELSE cMw
    /\ ForgetRequest
    /\ UNCHANGED <<extVars, parseVars, chainVars, cApp, gPrefix, gMw, gDone, gPos, appCtrls,
                   tableVars, appSetup, stack, loopVarPerIter>>

\* the router.Use calls Register makes for one *flux.Controller
RECURSIVE GroupUsesFrom(_, _, _, _, _)
GroupUsesFrom(prefix, middleware, perIter, k, stk) ==
    IF k > Len(middleware) THEN stk
    ELSE LET mw == IF perIter THEN middleware[k] ELSE middleware[Len(middleware)]
         IN  GroupUsesFrom(prefix, middleware, perIter, k + 1,
                           Append(stk, UseEntry(prefix, GroupUseHandler(mw))))

\* ControllerGroup.Register, one iteration of the loop over g.controllers:
\* for a *flux.Controller the router.Use calls and c.RegisterRoutes, for any
\* other controller app.RegisterController
GroupRegisterOne(c, prefix, middleware, perIter, stk) ==
    IF IsPlainController(c)
    THEN RegisterRoutes(c, prefix, GroupUsesFrom(prefix, middleware, perIter, 1, stk))
    ELSE RegisterControllerStack(c, stk)

\* Register goes through the next controller of the group; nothing is held
\* between two iterations, so requests are served in between.  With the last
\* controller (or with none) Register returns.
GroupRegister ==
    /\ ~gDone
    /\ IF gPos < Len(gCtrls)
       THEN LET c == gCtrls[gPos + 1]
            IN  /\ gPos' = gPos + 1
                /\ gDone' = (gPos + 1 = Len(gCtrls))
                /\ stack' = GroupRegisterOne(c, gPrefix, gMw, loopVarPerIter, stack)
                /\ appCtrls' = IF IsPlainController(c) THEN appCtrls
                               ELSE Append(appCtrls, c)
                /\ cApp' = [cApp EXCEPT ![c] = @ \/ ~IsPlainController(c)]
                /\ appRoutes' = IF IsPlainController(c) THEN appRoutes
                                ELSE RoutesAdded(c, appRoutes)
                /\ routesFile' = IF IsPlainController(c) THEN routesFile
                                 ELSE GenerateRouteFiles(RoutesAdded(c, appRoutes))
       ELSE /\ gDone' = TRUE
            /\ UNCHANGED <<gPos, stack, appCtrls, cApp, tableVars>>
    /\ ForgetRequest
    /\ UNCHANGED <<extVars, parseVars, chainVars, cMw, gPrefix, gMw, gCtrls,
                   appSetup, loopVarPerIter>>

\* a controller the group does not hold is registered directly
RegisterOutsideGroup(c) ==
    /\ ~InGroup(c)
    /\ RegisterController(c)

GroupRequest(method, path, outcome) == Request(method, path, outcome)

NextGroup ==
    \/ \E m \in GroupMiddlewares : GroupUse(m)
    \/ \E c \in GroupControllers : GroupAdd(c)
    \/ GroupRegister
    \/ \E c \in {"readme"} : RegisterOutsideGroup(c)
    \/ \E method \in {GET, POST}, path \in GroupRequestPaths, o \in Outcomes :
          GroupRequest(method, path, o)
    \/ ReadResponse

SpecGroup == InitGroup /\ [][NextGroup]_vars

\* C3: once a middleware has returned without invoking its next handler, no
\* later middleware is entered and no handler method is invoked in that
\* request.
C3_ShortCircuitStops ==
    req.served =>
        \A i \in DOMAIN log :
            (log[i].ev = "before" /\ ~CallsNext(log[i].who)) =>
                \A j \in DOMAIN log : j > i => log[j].ev = "after"

\* C5: a user controller registered through a group has all its routes
\* under the group's prefix, and each request reaching one of its handler
\* methods has entered every middleware of the group before.
C5_GroupAppliesToUserController ==
    gDone =>
        /\ \A j \in DOMAIN stack :
               (stack[j].h.ctrl \in UserControllers /\ InGroup(stack[j].h.ctrl)) =>
                   HasPrefix(stack[j].path, gPrefix \o sSlash)
        /\ req.served =>
               \A i \in DOMAIN log :
                   (log[i].ev = "call" /\ log[i].ctrl \in UserControllers
                      /\ InGroup(log[i].ctrl)) =>
                       \A k \in DOMAIN gMw :
                           \E j \in 1..(i - 1) : log[j] = Event(gMw[k], "before")

(***************************************************************************)
(* Digits and runs of capitals in the action part (SpecParse)              *)
(***************************************************************************)
Digits == {"0","1","2","3","4","5","6","7","8","9"}

\* the fragment with a hyphen before every capital and every digit, except
\* at position 0
RECURSIVE SegmentedFrom(_, _)
SegmentedFrom(a, i) ==
    IF i > Len(a) THEN <<>>
    ELSE (IF i > 1 /\ (IsUpper(a[i]) \/ a[i] \in Digits) THEN <<"-">> ELSE <<>>)
         \o <<ToLowerRune(a[i])>> \o SegmentedFrom(a, i + 1)
Segmented(a) == SegmentedFrom(a, 1)

\* C11: every digit and every capital of a run of capitals in the action
\* part starts a new segment: the fragment has a hyphen before each such
\* character except at position 0 (HandleGetUserID gives user-i-d, and in
\* HandleGetV2Users the digit 2 begins its own segment).
C11_DigitsAndCapitalsStartSegments ==
    (pRoute.done /\ ~Contains(Segmented(ConvAction(pRem)), sById)
                 /\ Segmented(ConvAction(pRem)) \notin {sEmpty, sIndexLower}) =>
        pRoute.Path = pBase \o sSlash \o Segmented(ConvAction(pRem))

(***************************************************************************)
(* Registering a controller again (Spec)                                   *)
(***************************************************************************)
\* C12: RegisterController on a controller that is already registered
\* changes neither the transport bindings nor the application's controller
\* list: nothing is duplicated.
C12_ReRegistrationIdempotent ==
    [][\A c \in UserControllers :
          (Registered(c) /\ RegisterController(c)) =>
              (stack' = stack /\ appCtrls' = appCtrls)]_vars

(***************************************************************************)
(* SpecRoutes: a controller's route set, filled by the explicit            *)
(* Controller.RegisterRoute(method, path, description, handler), with      *)
(* Route.SetName and Controller.GetRouteByName                             *)
(***************************************************************************)
MaxRoutes == 3

sColon == <<":">>
RouteMethodInputs == {tLowGet, sGet, GET, POST, tCreate}
RoutePathInputs == {pathUser, pathUser \o sSlashId}
RouteNames == {"list", "show"}

\* variant: the key is the path alone
routeKeyPathOnly(method, path) == path

\* routeKey := fmt.Sprintf("%s:%s", route.Method, route.Path)
routeKey(method, path) == method \o sColon \o path

\* c.routes[routeKey] = route
MapPut(m, k, v) == [x \in DOMAIN m \cup {k} |-> IF x = k THEN v ELSE m[x]]

InitRoutes ==
    /\ rObjs = <<>> /\ rMap = <<>> /\ rFound = NoFound
    /\ InitApp /\ gPrefix = sEmpty /\ loopVarPerIter = FALSE
    /\ InitIdleLib /\ InitIdleParse /\ InitIdleChain /\ InitIdleReq /\ InitIdleTimeout /\ InitIdleLock

\* the controller whose route set is followed, and its Name(): the type name
\* of the embedded *Controller, no SetName having been called on it
RouteController == "readme"
sCustomHandler == <<"C","u","s","t","o","m","H","a","n","d","l","e","r">>
ControllerName == sController

\* Application.RegisterController on that controller, which sets its c.app;
\* here the application registers it once
RegisterRouteController ==
    /\ ~cApp[RouteController]
    /\ RegisterController(RouteController)

\* Controller.RegisterRoute: the Route is stored under its key and, when the
\* controller has an application, entered in the application's route table
\* (69-72); nothing is bound on the transport and no routes file is written
CtlRegisterRoute(method, path) ==
    LET route == [Method |-> ToUpper(method), Path |-> path, Name |-> ""]
        handlerName == ControllerName \o <<".">> \o sCustomHandler
    IN  /\ Len(rObjs) < MaxRoutes
        /\ rObjs' = Append(rObjs, route)
        /\ rMap' = MapPut(rMap, routeKey(route.Method, route.Path), Len(rObjs) + 1)
        /\ rFound' = NoFound
        /\ appRoutes' = IF cApp[RouteController]
                        THEN RouteTableAdd(appRoutes, route.Method, route.Path,
                                           handlerName)
                        ELSE appRoutes
        /\ UNCHANGED <<libVars, parseVars, reqVars, chainVars, toVars, lockVars,
                       cMw, cApp, gPrefix, gMw, gCtrls, gDone, gPos, appCtrls,
                       routesFile, appSetup, stack, loopVarPerIter>>

\* Route.SetName on a Route that RegisterRoute returned
RouteSetName(r, n) ==
    /\ r \in DOMAIN rObjs
    /\ rObjs[r].Name # n
    /\ rObjs' = [rObjs EXCEPT ![r].Name = n]
    /\ rFound' = NoFound
    /\ UNCHANGED <<rMap, libVars, parseVars, appVars, reqVars, chainVars, toVars, lockVars>>

\* the Routes the loop of GetRouteByName can stop at; the map is ranged over
\* in an order the runtime chooses
NamedRoutes(n) == {rMap[k] : k \in {x \in DOMAIN rMap : rObjs[rMap[x]].Name = n}}

\* Controller.GetRouteByName
CtlGetRouteByName(n) ==
    /\ ~rFound.asked
    /\ \/ /\ NamedRoutes(n) = {}
          /\ rFound' = [asked |-> TRUE, name |-> n, route |-> 0]
       \/ \E r \in NamedRoutes(n) :
             rFound' = [asked |-> TRUE, name |-> n, route |-> r]
    /\ UNCHANGED <<rObjs, rMap, libVars, parseVars, appVars, reqVars, chainVars, toVars, lockVars>>

\* the caller has used the result
CtlForgetLookup ==
    /\ rFound.asked
    /\ rFound' = NoFound
    /\ UNCHANGED <<rObjs, rMap, libVars, parseVars, appVars, reqVars, chainVars, toVars, lockVars>>

NextRoutes ==
    \/ \E method \in RouteMethodInputs, path \in RoutePathInputs :
          CtlRegisterRoute(method, path)
    \/ \E r \in 1..MaxRoutes, n \in RouteNames : RouteSetName(r, n)
    \/ \E n \in RouteNames : CtlGetRouteByName(n)
    \/ CtlForgetLookup

\* the route set of a controller that no application holds
SpecRoutes == InitRoutes /\ [][NextRoutes]_vars

\* the same with an application that registers the controller at some point
NextRoutesApp ==
    \/ \E method \in RouteMethodInputs, path \in RoutePathInputs :
          CtlRegisterRoute(method, path)
    \/ RegisterRouteController
    \/ \E r \in 1..MaxRoutes, n \in RouteNames : RouteSetName(r, n)
    \/ \E n \in RouteNames : CtlGetRouteByName(n)
    \/ CtlForgetLookup

SpecRoutesApp == InitRoutes /\ [][NextRoutesApp]_vars

\* Controller.GetRoutes
GetRoutes == {rMap[k] : k \in DOMAIN rMap}
SamePair(a, b) == rObjs[a].Method = rObjs[b].Method /\ rObjs[a].Path = rObjs[b].Path

\* the Routes RegisterRoute has returned that carry the name n, replaced or
\* not
EverNamed(n) == {x \in DOMAIN rObjs : rObjs[x].Name = n}

\* C13 as stated: the route set holds exactly one Route for each
\* (upper-cased method, path) pair registered so far, the one of the latest
\* registration for the pair; and GetRouteByName(n) returns the Route on
\* which SetName(n) was called after its registration, when no other Route
\* has that name.
C13_OneRoutePerPairLastWinsAsStated ==
    /\ \A a \in DOMAIN rObjs :
          /\ Cardinality({r \in GetRoutes : SamePair(r, a)}) = 1
          /\ \A r \in GetRoutes :
                SamePair(r, a) => \A b \in DOMAIN rObjs : SamePair(b, a) => b <= r
    /\ Cardinality(GetRoutes) = Cardinality(DOMAIN rMap)
    /\ \A r \in DOMAIN rObjs :
          (rFound.asked /\ rFound.name = rObjs[r].Name /\ EverNamed(rFound.name) = {r})
              => rFound.route = r

\* C13 amended: the route set holds exactly one Route for each (upper-cased
\* method, path) pair registered so far, the one of the latest registration
\* for the pair; GetRouteByName(n) returns the Route of the set that
\* SetName(n) named, when it is the only one of the set with that name; a
\* Route that a later registration of its pair has replaced is never
\* returned, whatever its name.
C13_OneRoutePerPairLastWins ==
    /\ rFound.asked => rFound.route \in GetRoutes \cup {0}
    /\ \A a \in DOMAIN rObjs :
          /\ Cardinality({r \in GetRoutes : SamePair(r, a)}) = 1
          /\ \A r \in GetRoutes :
                SamePair(r, a) => \A b \in DOMAIN rObjs : SamePair(b, a) => b <= r
    /\ Cardinality(GetRoutes) = Cardinality(DOMAIN rMap)
    /\ \A r \in GetRoutes :
          (rFound.asked /\ rFound.name = rObjs[r].Name /\ NamedRoutes(rFound.name) = {r})
              => rFound.route = r

\* the same pair was registered twice, once in lower case, next to another
\* method on the same path, and the named Route was looked up
C13_Witness ==
    /\ Len(rObjs) = 3
    /\ rObjs[1].Method = GET /\ rObjs[2].Method = POST /\ SamePair(1, 3)
    /\ GetRoutes = {2, 3}
    /\ rObjs[3].Name = "show"
    /\ rFound = [asked |-> TRUE, name |-> "show", route |-> 3]

\* C14: every Route in the controller's route set has one of the seven HTTP
\* methods and a transport binding for the same method and path.
C14_RouteSetBound ==
    \A r \in GetRoutes :
        /\ rObjs[r].Method \in SevenMethods
        /\ \E j \in DOMAIN stack :
              /\ ~stack[j].use
              /\ stack[j].method = rObjs[r].Method
              /\ stack[j].path = rObjs[r].Path

(***************************************************************************)
(* GenerateOpenAPI (openapi.go): the operations of the generated document  *)
(***************************************************************************)
AnnotationVerbs == <<sGet, sPost, sPut, sDelete, sPatch>>

\* getMethodAnnotations: the verbs that are a prefix of the method's name
getMethodAnnotations(methodName) ==
    SelectSeq(AnnotationVerbs, LAMBDA v : HasPrefix(methodName, v))

\* getHTTPMethodFromAnnotations: the first of them, upper-cased, or ""
getHTTPMethodFromAnnotations(methodName) ==
    IF getMethodAnnotations(methodName) = <<>> THEN sEmpty
    ELSE ToUpper(getMethodAnnotations(methodName)[1])

\* reflect.TypeOf(controller).Name(): controllers are registered as
\* pointers, and a pointer type has no name
PointerTypeName(c) == sEmpty

\* the loop body of GenerateOpenAPI for one controller: an operation for
\* each method whose name starts with one of the verbs
OperationsOf(c) ==
    {[method |-> getHTTPMethodFromAnnotations(MethodsOf(c)[i]),
      path |-> sSlash \o ToLower(PointerTypeName(c)) \o sSlash
                 \o ToLower(MethodsOf(c)[i])] :
        i \in {j \in DOMAIN MethodsOf(c) :
                 getHTTPMethodFromAnnotations(MethodsOf(c)[j]) # sEmpty}}

\* GenerateOpenAPI: spec.Paths, as the set of (method, path) operations
GenerateOpenAPI(ctrls) ==
    UNION {OperationsOf(ctrls[i]) : i \in DOMAIN ctrls}

\* the (method, path) pairs the transport serves for controllers
ServedRoutes ==
    {[method |-> stack[j].method, path |-> stack[j].path] :
        j \in {k \in DOMAIN stack : stack[k].h.kind = "createHandlerFunc"}}

\* C15: the generated document has an operation for every (method, path)
\* that RegisterController bound, and none for a pair that is not served.
C15_OpenAPIMatchesServer ==
    GenerateOpenAPI(appCtrls) = ServedRoutes

(***************************************************************************)
(* SpecTimeout: one handler behind Recover() and Timeout(d)                *)
(* (middleware.go).  Timeout runs next(ctx) in a goroutine of its own and  *)
(* selects on its result and on time.After(d); the transport's own         *)
(* recover handler (app.go, New) guards the goroutine serving the request  *)
(***************************************************************************)
MaxD == 2
MaxWork == 2

HandlerResults == {NilErr, ErrNotFound, PlainErr}
\* "": no panic; "error": panic(err) with err an error; "value": any other
PanicKinds == {"", "error", "value"}
Scripts ==
    [result : HandlerResults, panic : PanicKinds, work : 0..MaxWork]

\* flux.NewAppError("Request timeout", 408)
TimeoutError == NewAppError(408)

\* variant: the timer case hands back what was received, nothing
TimeoutSelectNoError(event, err) == err

\* select { case err := <-done: return err
\*          case <-time.After(duration): return NewAppError(..., 408) }
TimeoutSelect(event, err) ==
    IF event = "done" THEN err ELSE TimeoutError

\* the deferred function of Recover for a panic of kind p: err is set from
\* the panic value, then ctx.App().Logger() is called, which panics again
\* when ctx.App() is nil
RecoverDeferred(app, p) ==
    IF ~app THEN [escaped |-> TRUE, ret |-> PlainErr]
    ELSE [escaped |-> FALSE,
          ret |-> IF p = "error" THEN PlainErr ELSE NewAppError(500)]

InitTimeout ==
    /\ tCfg \in [recover : BOOLEAN, timeout : BOOLEAN, app : BOOLEAN, d : 1..MaxD]
    /\ tReq = NoScript /\ tMain = MainIdle /\ tHand = HandNone
    /\ tClock = 0 /\ tCtx = NoCtxUse /\ tCrashed = FALSE
    /\ InitIdleLib /\ InitIdleParse /\ InitIdleChain /\ InitIdleReq /\ InitIdleApp /\ InitIdleRoutes
    /\ InitIdleLock

\* a request reaches the chain: with Timeout the handler starts in a new
\* goroutine and the serving goroutine waits in the select
TStart(script) ==
    /\ tMain.pc = "idle" /\ ~tCrashed
    /\ tReq' = script
    /\ tMain' = [MainIdle EXCEPT !.pc = IF tCfg.timeout THEN "select" ELSE "running"]
    /\ tHand' = [pc |-> "running", left |-> script.work]
    /\ tClock' = 0
    /\ tCtx' = NoCtxUse
    /\ UNCHANGED <<tCfg, tCrashed, libVars, parseVars, appVars, reqVars, chainVars, ctlVars,
                   lockVars>>

\* the handler reads or writes its Context
HandlerWrite ==
    /\ tHand.pc = "running" /\ tHand.left > 0 /\ ~tCrashed
    /\ tHand' = [tHand EXCEPT !.left = @ - 1]
    /\ tCtx' = [writes |-> tCtx.writes + 1,
                late |-> tCtx.late \/ tMain.pc = "returned"]
    /\ UNCHANGED <<tCfg, tReq, tMain, tClock, tCrashed,
                   libVars, parseVars, appVars, reqVars, chainVars, ctlVars,
                   lockVars>>

\* the handler returns: done <- next(ctx) behind Timeout, a plain return
\* otherwise
HandlerReturn ==
    /\ tHand.pc = "running" /\ tHand.left = 0 /\ tReq.panic = "" /\ ~tCrashed
    /\ IF tCfg.timeout
       THEN IF tMain.pc = "select"
            THEN /\ tMain' = [tMain EXCEPT !.pc = "returned", !.by = "done",
                                           !.ret = TimeoutSelect("done", tReq.result)]
                 /\ tHand' = [tHand EXCEPT !.pc = "finished"]
            ELSE \* nobody receives from done any more
                 /\ tHand' = [tHand EXCEPT !.pc = "blocked"]
                 /\ tMain' = tMain
       ELSE /\ tMain' = [tMain EXCEPT !.pc = "returned", !.by = "direct",
                                      !.ret = tReq.result]
            /\ tHand' = [tHand EXCEPT !.pc = "finished"]
    /\ UNCHANGED <<tCfg, tReq, tClock, tCtx, tCrashed,
                   libVars, parseVars, appVars, reqVars, chainVars, ctlVars,
                   lockVars>>

\* the handler panics: in Timeout's goroutine nothing recovers it; in the
\* serving goroutine Recover's deferred function runs, and what escapes it
\* is caught by the transport's recover handler
HandlerPanic ==
    /\ tHand.pc = "running" /\ tHand.left = 0 /\ tReq.panic # "" /\ ~tCrashed
    /\ tHand' = [tHand EXCEPT !.pc = "panicked"]
    /\ IF tCfg.timeout
       THEN tCrashed' = TRUE /\ tMain' = tMain
       ELSE /\ tCrashed' = FALSE
            /\ IF tCfg.recover
               THEN LET r == RecoverDeferred(tCfg.app, tReq.panic)
                    IN  tMain' = [pc |-> "returned", ret |-> r.ret,
                                  escaped |-> r.escaped,
                                  by |-> IF r.escaped THEN "transport" ELSE "recover"]
               ELSE tMain' = [pc |-> "returned", ret |-> PlainErr,
                              escaped |-> FALSE, by |-> "transport"]
    /\ UNCHANGED <<tCfg, tReq, tClock, tCtx,
                   libVars, parseVars, appVars, reqVars, chainVars, ctlVars,
                   lockVars>>

\* time passes while the serving goroutine waits; when d has elapsed the
\* timer's channel delivers and the select returns
Tick ==
    /\ tMain.pc = "select" /\ tClock < tCfg.d /\ ~tCrashed
    /\ tClock' = tClock + 1
    /\ tMain' = IF tClock + 1 = tCfg.d
                THEN [tMain EXCEPT !.pc = "returned", !.by = "timer",
                                   !.ret = TimeoutSelect("timer", NilErr)]
                ELSE tMain
    /\ UNCHANGED <<tCfg, tReq, tHand, tCtx, tCrashed,
                   libVars, parseVars, appVars, reqVars, chainVars, ctlVars,
                   lockVars>>

\* the response has gone out and the handler has come to rest: the server
\* takes the next request
TNextRequest ==
    /\ tMain.pc = "returned" /\ tHand.pc # "running" /\ ~tCrashed
    /\ tReq' = NoScript /\ tMain' = MainIdle /\ tHand' = HandNone
    /\ tClock' = 0 /\ tCtx' = NoCtxUse
    /\ UNCHANGED <<tCfg, tCrashed, libVars, parseVars, appVars, reqVars, chainVars, ctlVars,
                   lockVars>>

NextTimeout ==
    \/ \E script \in Scripts : TStart(script)
    \/ HandlerWrite
    \/ HandlerReturn
    \/ HandlerPanic
    \/ Tick
    \/ TNextRequest

SpecTimeout == InitTimeout /\ [][NextTimeout]_vars

\* C16: behind Timeout(d), a handler still running when d has elapsed makes
\* the middleware return the 408 timeout error at that moment; a handler
\* that returns earlier makes it return exactly the handler's result; the
\* middleware never waits longer than d.
C16_TimeoutReturnsAtDeadline ==
    tCfg.timeout =>
        /\ tMain.pc = "select" => tClock < tCfg.d
        /\ tMain.by = "timer" => (tMain.ret = NewAppError(408) /\ tClock = tCfg.d)
        /\ tMain.by = "done" => (tMain.ret = tReq.result /\ tClock < tCfg.d)
        /\ tHand.pc = "finished" => tMain.by = "done"
        /\ (tMain.pc = "returned" /\ tHand.pc \in {"running", "blocked"})
              => tMain.by = "timer"

\* the deadline passed while the handler was still at work
C16_Witness ==
    /\ tCfg.timeout /\ tCfg.d = 2
    /\ tMain.pc = "returned" /\ tMain.by = "timer" /\ tMain.ret = NewAppError(408)
    /\ tHand.pc = "running" /\ tHand.left = 1 /\ tCtx.writes = 1

\* C17: the Context is used by one execution at a time and never after the
\* response was produced: once the serving goroutine has returned, the
\* handler is not running and has not touched the Context since.
C17_ContextNotUsedAfterResponse ==
    tMain.pc = "returned" => (tHand.pc # "running" /\ ~tCtx.late)

\* C18: with Recover outermost a handler's panic never gets past it: the
\* process stays up, the panic does not escape Recover, and Recover returns
\* the panic value when it is an error, a 500 AppError otherwise.
C18_RecoverContainsPanics ==
    tCfg.recover =>
        /\ ~tCrashed
        /\ ~tMain.escaped
        /\ tHand.pc = "panicked" =>
              /\ tMain.pc = "returned" /\ tMain.by = "recover"
              /\ tMain.ret = IF tReq.panic = "error" THEN PlainErr ELSE NewAppError(500)

(***************************************************************************)
(* SpecLock: which calls hold Application.mu while they mutate the route   *)
(* table, a controller's route set or a middleware list, next to requests  *)
(* whose route closure reads Controller.middleware                         *)
(***************************************************************************)
MaxReaders == 2

\* the mutating calls, the data each writes, and whether its code takes
\* app.mu.Lock()
Mutators ==
    {[op |-> "RegisterController", target |-> "app", locks |-> TRUE],
     [op |-> "Controller.Use", target |-> "c.middleware", locks |-> FALSE],
     [op |-> "Controller.RegisterRoute", target |-> "c.routes", locks |-> FALSE],
     [op |-> "ControllerGroup.Use", target |-> "g.middleware", locks |-> FALSE],
     [op |-> "ControllerGroup.Add", target |-> "c.middleware", locks |-> FALSE]}

InitLock ==
    /\ lkMu = MuFree /\ lkWriters = {} /\ lkReaders = 0
    /\ InitIdleLib /\ InitIdleParse /\ InitIdleChain /\ InitIdleReq /\ InitIdleApp
    /\ InitIdleRoutes /\ InitIdleTimeout

\* a goroutine enters one of the mutating calls; RegisterController first
\* takes app.mu.Lock(), the others take no lock
MutatorBegin(m) ==
    /\ m \notin lkWriters
    /\ IF m.locks
       THEN /\ ~lkMu.writer /\ lkMu.readers = 0
            /\ lkMu' = [lkMu EXCEPT !.writer = TRUE]
       ELSE lkMu' = lkMu
    /\ lkWriters' = lkWriters \cup {m}
    /\ UNCHANGED <<lkReaders, libVars, parseVars, appVars, reqVars, chainVars, ctlVars, toVars>>

\* the call returns (defer app.mu.Unlock() in RegisterController)
MutatorEnd(m) ==
    /\ m \in lkWriters
    /\ lkMu' = IF m.locks THEN [lkMu EXCEPT !.writer = FALSE] ELSE lkMu
    /\ lkWriters' = lkWriters \ {m}
    /\ UNCHANGED <<lkReaders, libVars, parseVars, appVars, reqVars, chainVars, ctlVars, toVars>>

\* a request enters the closure of registerRoute, which reads c.middleware
\* without taking a lock
ServeBegin ==
    /\ lkReaders < MaxReaders
    /\ lkReaders' = lkReaders + 1
    /\ UNCHANGED <<lkMu, lkWriters, libVars, parseVars, appVars, reqVars, chainVars, ctlVars,
                   toVars>>

ServeEnd ==
    /\ lkReaders > 0
    /\ lkReaders' = lkReaders - 1
    /\ UNCHANGED <<lkMu, lkWriters, libVars, parseVars, appVars, reqVars, chainVars, ctlVars,
                   toVars>>

\* GenerateOpenAPI reads app.controllers under app.mu.RLock()
OpenAPIBegin ==
    /\ ~lkMu.writer /\ lkMu.readers < MaxReaders
    /\ lkMu' = [lkMu EXCEPT !.readers = @ + 1]
    /\ UNCHANGED <<lkWriters, lkReaders, libVars, parseVars, appVars, reqVars, chainVars,
                   ctlVars, toVars>>

OpenAPIEnd ==
    /\ lkMu.readers > 0
    /\ lkMu' = [lkMu EXCEPT !.readers = @ - 1]
    /\ UNCHANGED <<lkWriters, lkReaders, libVars, parseVars, appVars, reqVars, chainVars,
                   ctlVars, toVars>>

NextLock ==
    \/ \E m \in Mutators : MutatorBegin(m)
    \/ \E m \in Mutators : MutatorEnd(m)
    \/ OpenAPIBegin
    \/ OpenAPIEnd
    \/ ServeBegin
    \/ ServeEnd

SpecLock == InitLock /\ [][NextLock]_vars

\* C19: every mutation in progress holds the writer lock, and no request
\* reads a middleware list while a call is writing it.
C19_MutationsHoldWriterLock ==
    /\ \A m \in lkWriters : m.locks /\ lkMu.writer
    /\ lkReaders > 0 => \A m \in lkWriters : m.target # "c.middleware"

(***************************************************************************)
(* The Application a Context refers to (Spec)                              *)
(***************************************************************************)
\* C20: every handler and middleware invocation of a request receives a
\* Context whose App() is the Application, not nil.
C20_ContextHasApplication ==
    req.served => \A i \in DOMAIN resp.apps : resp.apps[i].app

(***************************************************************************)
(* How often a request runs each middleware and the handler (SpecGroup)    *)
(***************************************************************************)
Occurrences(sq, x) == Cardinality({i \in DOMAIN sq : sq[i] = x})
NotShortCircuited(l) ==
    \A i \in DOMAIN l : l[i].ev = "before" => CallsNext(l[i].who)

\* C21: in a request that no middleware short-circuits, every middleware of
\* the group is entered exactly as often as the group lists it when the
\* request is under the group's prefix, no middleware is entered more often
\* than that, and the handler method is invoked at most once.
C21_EachMiddlewareOnce ==
    (req.served /\ gDone /\ NotShortCircuited(log)) =>
        /\ \A m \in GroupMiddlewares :
              Occurrences(log, Event(m, "before")) <= Occurrences(gMw, m)
        /\ (InGroup("bare") /\ HasPrefix(req.path, gPrefix)) =>
              \A m \in GroupMiddlewares :
                  Occurrences(log, Event(m, "before")) = Occurrences(gMw, m)
        /\ Cardinality({i \in DOMAIN log : log[i].ev = "call"}) <= 1

(***************************************************************************)
(* Schema generation: generateSchemaFromType (pkg/forge/openapi.go)        *)
(***************************************************************************)
sOmitempty == <<"o","m","i","t","e","m","p","t","y">>
sName == <<"N","a","m","e">>
sAge == <<"A","g","e">>
sNameLower == <<"n","a","m","e">>
sAgeLower == <<"a","g","e">>
sOptional == <<",">> \o sOmitempty

\* strings.Split(s, ",")[0]
SplitFirst(s) ==
    IF \E i \in DOMAIN s : s[i] = ","
    THEN SubSeq(s, 1, (CHOOSE i \in DOMAIN s :
                          s[i] = "," /\ \A j \in 1..(i - 1) : s[j] # ",") - 1)
    ELSE s

\* reflect.Type values: a kind, for a struct the name under which scDecls
\* holds its fields, for a pointer, slice, array or map the element type
IntKinds == {"int", "int8", "int16", "int32", "int64"}
UintKinds == {"uint", "uint8", "uint16", "uint32", "uint64"}
FloatKinds == {"float32", "float64"}
ElemKinds == {"ptr", "slice", "array", "map"}
NilType == [kind |-> "nil"]
Basic(k) == [kind |-> k]
StructType(n) == [kind |-> "struct", name |-> n]
ElemType(k, t) == [kind |-> k, elem |-> t]
StructField(n, tag, t) == [name |-> n, tag |-> tag, type |-> t]

\* the nil *Schema and the Schema values
NilSchema == [type |-> "nil"]
ObjectSchema(props, required) ==
    [type |-> "object", properties |-> props, required |-> required]

\* the serialization name of a field: lines 299-302
FieldNameDeclaredLower(field) ==
    IF SplitFirst(field.tag) = <<>> THEN ToLower(field.name)
    ELSE SplitFirst(field.tag)
FieldName(field) ==
    IF SplitFirst(field.tag) = <<>> THEN field.name ELSE SplitFirst(field.tag)

\* the fields the loop at 292 does not skip: jsonTag == "-" continues
ExcludedNever(field) == FALSE
Excluded(field) == field.tag = <<"-">>

RECURSIVE generateSchemaFromType(_, _)
RECURSIVE StructFieldsFrom(_, _, _, _)
\* the loop over the fields of struct type t from field i on, lines 292-312
StructFieldsFrom(decls, t, i, schema) ==
    IF i > Len(decls[t.name]) THEN schema
    ELSE LET field == decls[t.name][i]
             name == FieldName(field)
         IN  IF Excluded(field)
             THEN StructFieldsFrom(decls, t, i + 1, schema)
             ELSE LET fieldSchema == generateSchemaFromType(decls, field.type)
                  IN  IF fieldSchema = NilSchema
                      THEN StructFieldsFrom(decls, t, i + 1, schema)
                      ELSE StructFieldsFrom(decls, t, i + 1,
                             ObjectSchema(
                               MapPut(schema.properties, name, fieldSchema),
                               IF ~Contains(field.tag, sOmitempty)
                               THEN Append(schema.required, name)
                               ELSE schema.required))

generateSchemaFromType(decls, t) ==
    CASE t.kind = "nil" -> NilSchema
      [] t.kind = "string" -> [type |-> "string"]
      [] t.kind \in IntKinds -> [type |-> "integer"]
      [] t.kind \in FloatKinds -> [type |-> "number"]
      [] t.kind = "bool" -> [type |-> "boolean"]
      [] t.kind = "struct" ->
            StructFieldsFrom(decls, t, 1, ObjectSchema(<<>>, <<>>))
      [] t.kind \in {"slice", "array"} ->
            [type |-> "array", items |-> generateSchemaFromType(decls, t.elem)]
      [] t.kind = "map" ->
            [type |-> "object",
             additionalProperties |-> generateSchemaFromType(decls, t.elem)]
      [] t.kind = "ptr" -> generateSchemaFromType(decls, t.elem)
      [] OTHER -> NilSchema

\* the recursion, one call at a time: a frame is a call of
\* generateSchemaFromType on type t that has made its first i recursive calls
\* (for a struct: has gone through its first i fields)
MaxStack == 6
StackOverflow == [type |-> "fatal: stack overflow"]
Frame(t) == [t |-> t, i |-> 0]
Top == scStack[Len(scStack)]

\* the next field of a struct frame that is not skipped, 0 when none is left
NextFieldOf(decls, f) ==
    LET fs == decls[f.t.name]
        left == {j \in DOMAIN fs : j > f.i /\ ~Excluded(fs[j])}
    IN  IF left = {} THEN 0 ELSE CHOOSE j \in left : \A k \in left : j <= k

\* the recursive call the frame makes next, or none
HasCall(decls, f) ==
    CASE f.t.kind = "struct" -> NextFieldOf(decls, f) # 0
      [] f.t.kind \in ElemKinds -> f.i = 0
      [] OTHER -> FALSE
Callee(decls, f) ==
    IF f.t.kind = "struct" THEN decls[f.t.name][NextFieldOf(decls, f)].type
    ELSE f.t.elem
Advance(decls, f) ==
    IF f.t.kind = "struct" THEN [f EXCEPT !.i = NextFieldOf(decls, f)]
    ELSE [f EXCEPT !.i = 1]

\* inputs: the program declares struct types T and U
tT == "T"
tU == "U"
PrimitiveInputs ==
    {Basic("string"), Basic("int"), Basic("float64"), Basic("bool"),
     Basic("uint")}
FieldTypeInputs ==
    PrimitiveInputs \cup
    {ElemType("ptr", Basic("string")), ElemType("slice", Basic("int")),
     ElemType("map", Basic("bool")),
     StructType(tU), ElemType("ptr", StructType(tU)),
     ElemType("ptr", StructType(tT)), ElemType("slice", StructType(tT)),
     ElemType("map", StructType(tT))}
TagInputs ==
    {<<>>, sNameLower, sAgeLower, <<"-">>, sAgeLower \o sOptional, sOptional}
FieldDeclNames == <<sName, sAge>>
FieldsInputs ==
    UNION {{[i \in 1..n |-> StructField(FieldDeclNames[i], tg[i], ty[i])] :
              tg \in [1..n -> TagInputs], ty \in [1..n -> FieldTypeInputs]} :
           n \in 0..Len(FieldDeclNames)}
LeafFields == <<StructField(sName, sNameLower, Basic("string"))>>
BackFields == <<StructField(sName, <<>>, ElemType("ptr", StructType(tT)))>>
RootInputs == {StructType(tT), ElemType("ptr", StructType(tT)), NilType}

InitSchema ==
    /\ \E ft \in FieldsInputs, fu \in {LeafFields, BackFields} :
          scDecls = [T |-> ft, U |-> fu]
    /\ scRoot \in RootInputs
    /\ scStack = <<>> /\ scResult = NoSchema
    /\ InitIdleParse /\ InitIdleChain /\ InitIdleReq /\ InitIdleApp
    /\ InitIdleRoutes /\ InitIdleTimeout /\ InitIdleLock /\ InitIdleRate /\ InitIdleCache /\ InitIdleQueue /\ InitIdleErrors

\* generateSchemaFromType(requestType) is called (GenerateOpenAPI, line 196)
SchemaCall ==
    /\ scStack = <<>> /\ scResult = NoSchema
    /\ scStack' = <<Frame(scRoot)>>
    /\ UNCHANGED <<scDecls, scRoot, scResult, baseVars, rateVars, cacheVars, queueVars, errVars>>

\* the call on top makes its next recursive call
SchemaDescend ==
    /\ scStack # <<>> /\ scResult = NoSchema
    /\ Len(scStack) <= MaxStack
    /\ HasCall(scDecls, Top)
    /\ scStack' = Append([scStack EXCEPT ![Len(scStack)] = Advance(scDecls, Top)],
                         Frame(Callee(scDecls, Top)))
    /\ UNCHANGED <<scDecls, scRoot, scResult, baseVars, rateVars, cacheVars, queueVars, errVars>>

\* a recursive call returns to its caller
SchemaReturnInner ==
    /\ Len(scStack) > 1 /\ scResult = NoSchema
    /\ Len(scStack) <= MaxStack
    /\ ~HasCall(scDecls, Top)
    /\ scStack' = SubSeq(scStack, 1, Len(scStack) - 1)
    /\ UNCHANGED <<scDecls, scRoot, scResult, baseVars, rateVars, cacheVars, queueVars, errVars>>

\* the outermost call returns the schema
SchemaReturn ==
    /\ Len(scStack) = 1 /\ scResult = NoSchema
    /\ ~HasCall(scDecls, Top)
    /\ scStack' = <<>>
    /\ scResult' = generateSchemaFromType(scDecls, scRoot)
    /\ UNCHANGED <<scDecls, scRoot, baseVars, rateVars, cacheVars, queueVars, errVars>>

\* the calls in progress exceed what the goroutine's stack holds: the
\* runtime ends the process
SchemaOverflow ==
    /\ Len(scStack) > MaxStack /\ scResult = NoSchema
    /\ scResult' = StackOverflow
    /\ UNCHANGED <<scDecls, scRoot, scStack, baseVars, rateVars, cacheVars, queueVars, errVars>>

NextSchema ==
    \/ SchemaCall
    \/ SchemaDescend
    \/ SchemaReturnInner
    \/ SchemaReturn
    \/ SchemaOverflow

SpecSchema == InitSchema /\ [][NextSchema]_vars
\* the calling goroutine keeps running
SpecSchemaLive == SpecSchema /\ WF_vars(NextSchema)

SchemaReturned == scResult # NoSchema /\ scResult # StackOverflow

\* the flat struct {Name string; Age int} with the given json tags
FlatFields(tag1, tag2) ==
    <<StructField(sName, tag1, Basic("string")),
      StructField(sAge, tag2, Basic("int"))>>
NoOmissionTags == {tg \in TagInputs : tg # <<"-">> /\ ~Contains(tg, sOmitempty)}
FlatSchema(n1, n2) ==
    ObjectSchema(MapPut(MapPut(<<>>, n1, [type |-> "string"]),
                        n2, [type |-> "integer"]),
                 <<n1, n2>>)
NameOr(tag, declared) == IF tag = <<>> THEN declared ELSE tag

\* C22, as stated: for the struct {Name string; Age int} with no omission
\* marker on either field, whatever its json tags are, the schema returned is
\* the object with properties {name: string, age: integer} and required
\* [name, age].
C22_FlatStructAsStated ==
    (/\ SchemaReturned
     /\ scRoot = StructType(tT)
     /\ \E tag1, tag2 \in NoOmissionTags : scDecls[tT] = FlatFields(tag1, tag2))
    => scResult = FlatSchema(sNameLower, sAgeLower)

\* C22, amended: for the struct {Name string; Age int} whose fields carry the
\* json names name and age, or no json tag, and no omission marker, the schema
\* returned is the object whose properties are the string schema under the
\* first field's json name and the integer schema under the second's (the
\* declared names Name and Age where a field has no tag), and whose required
\* list is those two names in declaration order.
C22_FlatStruct ==
    \A tag1 \in {<<>>, sNameLower}, tag2 \in {<<>>, sAgeLower} :
        (/\ SchemaReturned
         /\ scRoot = StructType(tT)
         /\ scDecls[tT] = FlatFields(tag1, tag2))
        => scResult = FlatSchema(NameOr(tag1, sName), NameOr(tag2, sAge))

C22_Witness ==
    /\ SchemaReturned
    /\ scRoot = StructType(tT)
    /\ scDecls[tT] = FlatFields(sNameLower, sAgeLower)
    /\ scResult = FlatSchema(sNameLower, sAgeLower)

\* the schema the documentation promises for a field type: integer for
\* every integer kind, signed or unsigned; otherwise as generated
RECURSIVE PromisedSchema(_, _)
PromisedSchema(decls, t) ==
    CASE t.kind \in UintKinds -> [type |-> "integer"]
      [] t.kind \in {"slice", "array"} ->
            [type |-> "array", items |-> PromisedSchema(decls, t.elem)]
      [] t.kind = "map" ->
            [type |-> "object",
             additionalProperties |-> PromisedSchema(decls, t.elem)]
      [] t.kind = "ptr" -> PromisedSchema(decls, t.elem)
      [] OTHER -> generateSchemaFromType(decls, t)
NameIsUnique(fields, i) ==
    \A j \in DOMAIN fields :
        (j # i /\ ~Excluded(fields[j])) => FieldName(fields[j]) # FieldName(fields[i])

\* C23: in the schema returned for a struct type, every field not excluded
\* with json "-" appears in properties under its serialization name (its
\* declared name when it has none); where no other field shares that name,
\* the property is the schema of the field's type and the name is in required
\* exactly when the field is not marked omitempty.
C23_EveryFieldAppears ==
    (SchemaReturned /\ scRoot = StructType(tT)) =>
        \A i \in DOMAIN scDecls[tT] :
            LET field == scDecls[tT][i]
                name == FieldName(field)
            IN  ~Excluded(field) =>
                  /\ name \in DOMAIN scResult.properties
                  /\ NameIsUnique(scDecls[tT], i) =>
                       /\ scResult.properties[name] =
                             PromisedSchema(scDecls, field.type)
                       /\ (\E k \in DOMAIN scResult.required :
                              scResult.required[k] = name)
                          <=> ~Contains(field.tag, sOmitempty)

\* the type graph: the struct types a type mentions, and the struct types
\* the fields of struct n mention (all of them, or only those not tagged "-")
RECURSIVE StructsIn(_)
StructsIn(t) ==
    CASE t.kind = "struct" -> {t.name}
      [] t.kind \in ElemKinds -> StructsIn(t.elem)
      [] OTHER -> {}
Mentions(decls, n, all) ==
    UNION {StructsIn(decls[n][i].type) :
             i \in {j \in DOMAIN decls[n] : all \/ decls[n][j].tag # <<"-">>}}
RECURSIVE ReachFrom(_, _, _)
ReachFrom(decls, S, all) ==
    LET S2 == S \cup UNION {Mentions(decls, n, all) : n \in S}
    IN  IF S2 = S THEN S ELSE ReachFrom(decls, S2, all)
SelfReferential(decls, root, all) ==
    \E n \in ReachFrom(decls, StructsIn(root), all) :
        n \in ReachFrom(decls, Mentions(decls, n, all), all)

\* C24, as stated: generation returns on every type whose type graph is
\* acyclic and never returns on a type from which a struct that reaches
\* itself through its fields can be reached.
C24_TerminatesIffAcyclicAsStated ==
    /\ (~SelfReferential(scDecls, scRoot, TRUE)) ~> SchemaReturned
    /\ [](SelfReferential(scDecls, scRoot, TRUE) => ~SchemaReturned)

\* C24, amended: generation returns on every type whose type graph, leaving
\* out the fields tagged json "-", is acyclic, and never returns on a type
\* from which a struct is reachable that reaches itself through fields not
\* tagged json "-".
C24_TerminatesIffAcyclic ==
    /\ (~SelfReferential(scDecls, scRoot, FALSE)) ~> SchemaReturned
    /\ [](SelfReferential(scDecls, scRoot, FALSE) => ~SchemaReturned)

C24_Witness ==
    /\ SelfReferential(scDecls, scRoot, FALSE)
    /\ Len(scStack) > MaxStack
    /\ scResult = StackOverflow

(***************************************************************************)
(* RateLimit (pkg/forge/middleware/middleware.go)                          *)
(***************************************************************************)
\* time.Second, in the clock's unit of half a second
Second == 2
MaxLimit == 3
MaxTime == 3
MaxInFlight == 2
WindowInputs == {Second, 2 * Second}

\* lines 309-321: windowStart is the index of the first entry younger than
\* the cutoff, 0 when there is none; the entries before it are dropped
WindowStart(windows, cutoff) ==
    LET after == {i \in DOMAIN windows : windows[i].timestamp > cutoff}
    IN  IF after = {} THEN 0
        ELSE (CHOOSE i \in after : \A j \in after : i <= j) - 1
Prune(windows, cutoff) ==
    IF WindowStart(windows, cutoff) > 0
    THEN SubSeq(windows, WindowStart(windows, cutoff) + 1, Len(windows))
    ELSE windows

\* lines 323-326
RECURSIVE CountOf(_)
CountOf(windows) ==
    IF windows = <<>> THEN 0 ELSE Head(windows).count + CountOf(Tail(windows))

\* lines 337-346: the request is counted in the last entry when that entry is
\* less than a second old, else in a new entry
Record(windows, now) ==
    IF Len(windows) > 0 /\ now - windows[Len(windows)].timestamp < Second
    THEN [windows EXCEPT ![Len(windows)].count = @ + 1]
    ELSE Append(windows, [timestamp |-> now, count |-> 1])

\* &client{windows: make([]windowEntry, 0, 10)}: lastAccessed is the zero
\* time.Time until a request sets it
ZeroTime == [set |-> FALSE, at |-> 0]
NewClient == [windows |-> <<>>, lastAccessed |-> ZeroTime, held |-> FALSE]
\* now.Sub(c.lastAccessed) > 30*time.Minute (line 270)
CleanupAfter == 30 * 60 * Second
Stale(lastAccessed, now) ==
    ~lastAccessed.set \/ now - lastAccessed.at > CleanupAfter
\* the arrival times of the admitted requests, kept in ascending order
Admit(admitted, now) ==
    LET before == SelectSeq(admitted, LAMBDA t : t <= now)
        later == SelectSeq(admitted, LAMBDA t : t > now)
    IN  before \o <<now>> \o later
RequestIdle == [pc |-> "idle", now |-> 0, c |-> 0]
\* the cleanup goroutine waiting for its ticker (line 264)
SweepSleeping == [pc |-> "sleeping", now |-> 0]

InitRate ==
    /\ rlCfg \in [max : 1..MaxLimit, window : WindowInputs]
    /\ rlClock = 0 /\ rlClients = <<>> /\ rlData = 0 /\ rlSweep = SweepSleeping
    /\ rlReqs = [r \in 1..MaxInFlight |-> RequestIdle]
    /\ rlAdmitted = <<>> /\ rlLast = NoAnswer
    /\ InitIdleParse /\ InitIdleChain /\ InitIdleReq /\ InitIdleApp
    /\ InitIdleRoutes /\ InitIdleTimeout /\ InitIdleLock /\ InitIdleSchema /\ InitIdleCache /\ InitIdleQueue /\ InitIdleErrors

\* a request of the key arrives, lines 285-286: now := time.Now()
RateArrive(r) ==
    /\ rlReqs[r].pc = "idle"
    /\ rlReqs' = [rlReqs EXCEPT ![r] = [pc |-> "lookup", now |-> rlClock, c |-> 0]]
    /\ UNCHANGED <<rlCfg, rlClock, rlClients, rlData, rlSweep, rlAdmitted, rlLast,
                   baseVars, schemaVars, cacheVars, queueVars, errVars>>

\* lines 288-292: the client is looked up under clients.mu.RLock(), which
\* is released again
RateLookup(r) ==
    /\ rlReqs[r].pc = "lookup"
    /\ rlReqs' = [rlReqs EXCEPT ![r] =
           IF rlData # 0 THEN [@ EXCEPT !.pc = "waiting", !.c = rlData]
           ELSE [@ EXCEPT !.pc = "create"]]
    /\ UNCHANGED <<rlCfg, rlClock, rlClients, rlData, rlSweep, rlAdmitted, rlLast,
                   baseVars, schemaVars, cacheVars, queueVars, errVars>>

\* lines 293-301 under clients.mu.Lock(): the client is looked up once more
\* and created when the key still has none
RateCreate(r) ==
    /\ rlReqs[r].pc = "create"
    /\ IF rlData # 0
       THEN /\ rlReqs' = [rlReqs EXCEPT ![r].pc = "waiting", ![r].c = rlData]
            /\ UNCHANGED <<rlClients, rlData>>
       ELSE /\ rlClients' = Append(rlClients, NewClient)
            /\ rlData' = Len(rlClients) + 1
            /\ rlReqs' = [rlReqs EXCEPT ![r].pc = "waiting",
                                        ![r].c = Len(rlClients) + 1]
    /\ UNCHANGED <<rlCfg, rlClock, rlSweep, rlAdmitted, rlLast, baseVars,
                   schemaVars, cacheVars, queueVars, errVars>>

\* c.mu.Lock() (line 304) on the client the request got hold of
RateLock(r) ==
    /\ rlReqs[r].pc = "waiting"
    /\ ~rlClients[rlReqs[r].c].held
    /\ rlClients' = [rlClients EXCEPT ![rlReqs[r].c].held = TRUE]
    /\ rlReqs' = [rlReqs EXCEPT ![r].pc = "locked"]
    /\ UNCHANGED <<rlCfg, rlClock, rlData, rlSweep, rlAdmitted, rlLast, baseVars,
                   schemaVars, cacheVars, queueVars, errVars>>

\* lines 307-351 under c.mu: a rejected request returns at 329-335 and the
\* deferred Unlock runs; an admitted one goes on to next(ctx) with c.mu held
RateServe(r) ==
    /\ rlReqs[r].pc = "locked"
    /\ LET now == rlReqs[r].now
           c == rlReqs[r].c
           windows == Prune(rlClients[c].windows, now - rlCfg.window)
           count == CountOf(windows)
           accessed == [set |-> TRUE, at |-> now]
       IN  IF count >= rlCfg.max
           THEN /\ rlClients' = [rlClients EXCEPT ![c] =
                     [windows |-> windows, lastAccessed |-> accessed,
                      held |-> FALSE]]
                /\ rlAdmitted' = rlAdmitted
                /\ rlLast' = [served |-> TRUE, now |-> now, admitted |-> FALSE,
                              remaining |-> 0]
                /\ rlReqs' = [rlReqs EXCEPT ![r] = RequestIdle]
           ELSE /\ rlClients' = [rlClients EXCEPT ![c] =
                     [windows |-> Record(windows, now), lastAccessed |-> accessed,
                      held |-> TRUE]]
                /\ rlAdmitted' = Admit(rlAdmitted, now)
                /\ rlLast' = [served |-> TRUE, now |-> now, admitted |-> TRUE,
                              remaining |-> rlCfg.max - count - 1]
                /\ rlReqs' = [rlReqs EXCEPT ![r].pc = "next"]
    /\ UNCHANGED <<rlCfg, rlClock, rlData, rlSweep, baseVars, schemaVars,
                   cacheVars, queueVars, errVars>>

\* line 353: next(ctx) returns, and the deferred c.mu.Unlock() (305) runs
RateReturn(r) ==
    /\ rlReqs[r].pc = "next"
    /\ rlClients' = [rlClients EXCEPT ![rlReqs[r].c].held = FALSE]
    /\ rlReqs' = [rlReqs EXCEPT ![r] = RequestIdle]
    /\ UNCHANGED <<rlCfg, rlClock, rlData, rlSweep, rlAdmitted, rlLast, baseVars,
                   schemaVars, cacheVars, queueVars, errVars>>

\* the cleanup goroutine, lines 264-265: its ticker fires every ten
\* minutes, so at most once in the time considered; now := time.Now()
RateCleanupWake ==
    /\ rlSweep.pc = "sleeping"
    /\ rlSweep' = [pc |-> "woken", now |-> rlClock]
    /\ UNCHANGED <<rlCfg, rlClock, rlClients, rlData, rlReqs, rlAdmitted, rlLast,
                   baseVars, schemaVars, cacheVars, queueVars, errVars>>

\* lines 267-274 under clients.mu.Lock(): the key's client is removed when
\* lastAccessed is more than 30 minutes before the time read at 265.
\* lastAccessed is read without c.mu: while a request holds c.mu and is
\* about to write the field, the read is a data race and may yield any value
RateCleanup(torn) ==
    /\ rlSweep.pc = "woken"
    /\ rlSweep' = [rlSweep EXCEPT !.pc = "done"]
    /\ LET raced == \E r \in DOMAIN rlReqs :
                       rlReqs[r].pc = "locked" /\ rlReqs[r].c = rlData
       IN  rlData' = IF rlData # 0
                        /\ (Stale(rlClients[rlData].lastAccessed, rlSweep.now)
                            \/ (raced /\ torn))
                     THEN 0 ELSE rlData
    /\ UNCHANGED <<rlCfg, rlClock, rlClients, rlReqs, rlAdmitted, rlLast, baseVars,
                   schemaVars, cacheVars, queueVars, errVars>>

\* half a second passes
RateTick ==
    /\ rlClock < MaxTime
    /\ rlClock' = rlClock + 1
    /\ UNCHANGED <<rlCfg, rlClients, rlData, rlSweep, rlReqs, rlAdmitted, rlLast,
                   baseVars, schemaVars, cacheVars, queueVars, errVars>>

NextRate ==
    \/ \E r \in 1..MaxInFlight : RateArrive(r)
    \/ \E r \in 1..MaxInFlight : RateLookup(r)
    \/ \E r \in 1..MaxInFlight : RateCreate(r)
    \/ \E r \in 1..MaxInFlight : RateLock(r)
    \/ \E r \in 1..MaxInFlight : RateServe(r)
    \/ \E r \in 1..MaxInFlight : RateReturn(r)
    \/ RateCleanupWake
    \/ \E torn \in BOOLEAN : RateCleanup(torn)
    \/ RateTick

SpecRate == InitRate /\ [][NextRate]_vars

AdmittedIn(from, to) ==
    Cardinality({i \in DOMAIN rlAdmitted :
                    from <= rlAdmitted[i] /\ rlAdmitted[i] < to})

\* C25: for every interval of length Window, at most Max of the requests
\* that arrived in it were passed on to the next handler, and the remaining
\* count reported to an admitted request is never negative.
C25_AtMostMaxPerWindow ==
    /\ \A from \in 0..MaxTime :
          AdmittedIn(from, from + rlCfg.window) <= rlCfg.max
    /\ rlLast.remaining >= 0

\* C27: a request that arrives when every admitted request arrived at least
\* Window earlier is admitted.
C27_AdmittedAfterWindow ==
    (/\ rlLast.served
     /\ \A i \in DOMAIN rlAdmitted :
           rlAdmitted[i] + rlCfg.window <= rlLast.now) => rlLast.admitted

(***************************************************************************)
(* CachePlugin.GetOrSet (pkg/forge/mailer/mailer.go)                       *)
(***************************************************************************)
MaxCallers == 3
\* what the fn of caller c computes
Computed(c) == <<"value of", c>>
CallIdle == [pc |-> "idle", after |-> Missing, value |-> Missing, fn |-> FALSE]

\* the value a completed GetOrSet returned first since the key was last removed
FirstReturned(returned, v) == IF returned = Missing THEN v ELSE returned

InitCache ==
    /\ caStore = Missing /\ caReturned = Missing
    /\ caCalls = [c \in 1..MaxCallers |-> CallIdle]
    /\ InitIdleParse /\ InitIdleChain /\ InitIdleReq /\ InitIdleApp
    /\ InitIdleRoutes /\ InitIdleTimeout /\ InitIdleLock /\ InitIdleSchema
    /\ InitIdleRate /\ InitIdleQueue /\ InitIdleErrors

\* GetOrSet starts with p.Get (line 697): a hit returns the stored value, a
\* miss (flux.ErrNotFound) goes on to fn
CacheGet(c) ==
    /\ caCalls[c].pc = "idle"
    /\ IF caStore # Missing
       THEN /\ caCalls' = [caCalls EXCEPT ![c] =
                 [pc |-> "returned", after |-> caReturned, value |-> caStore,
                  fn |-> FALSE]]
            /\ caReturned' = FirstReturned(caReturned, caStore)
       ELSE /\ caCalls' = [caCalls EXCEPT ![c] =
                 [pc |-> "missed", after |-> caReturned, value |-> Missing,
                  fn |-> FALSE]]
            /\ caReturned' = caReturned
    /\ UNCHANGED <<caStore, baseVars, schemaVars, rateVars, queueVars, errVars>>

\* newValue, err := fn() (line 708)
CacheCompute(c) ==
    /\ caCalls[c].pc = "missed"
    /\ caCalls' = [caCalls EXCEPT ![c].pc = "computed",
                                  ![c].value = Computed(c), ![c].fn = TRUE]
    /\ UNCHANGED <<caStore, caReturned, baseVars, schemaVars, rateVars, queueVars, errVars>>

\* p.Set(ctx, key, newValue, ttl) (line 714) and the return of newValue
CacheSetValue(store, newValue) == newValue
CacheSet(c) ==
    /\ caCalls[c].pc = "computed"
    /\ caStore' = CacheSetValue(caStore, caCalls[c].value)
    /\ caCalls' = [caCalls EXCEPT ![c].pc = "returned"]
    /\ caReturned' = FirstReturned(caReturned, caCalls[c].value)
    /\ UNCHANGED <<baseVars, schemaVars, rateVars, queueVars, errVars>>

\* the caller has its result and may call again
CacheDone(c) ==
    /\ caCalls[c].pc = "returned"
    /\ caCalls' = [caCalls EXCEPT ![c] = CallIdle]
    /\ UNCHANGED <<caStore, caReturned, baseVars, schemaVars, rateVars, queueVars, errVars>>

\* Delete, Clear or the expiry of the ttl remove the key; what was returned
\* before no longer binds later calls
CacheDelete ==
    /\ caStore # Missing
    /\ caStore' = Missing /\ caReturned' = Missing
    /\ caCalls' = [c \in DOMAIN caCalls |-> [caCalls[c] EXCEPT !.after = Missing]]
    /\ UNCHANGED <<baseVars, schemaVars, rateVars, queueVars, errVars>>

\* what the program stores with a direct Set or SetNX
DirectValues == {<<"direct">>}
MaxCounter == 1
IsCounter(v) == v[1] = "int"
\* Redis INCRBY: an absent key counts from 0, a value that is no integer is
\* an error and stays
IncrBy(store, delta) ==
    IF store = Missing THEN <<"int", delta>>
    ELSE IF IsCounter(store) THEN <<"int", store[2] + delta>>
    ELSE store

\* the key gets the value v by a call other than GetOrSet; when that changes
\* what the key holds, what was returned before no longer binds later calls
CacheStore(v) ==
    /\ caStore' = v
    /\ IF v = caStore
       THEN UNCHANGED <<caReturned, caCalls>>
       ELSE /\ caReturned' = Missing
            /\ caCalls' = [c \in DOMAIN caCalls |->
                             [caCalls[c] EXCEPT !.after = Missing]]
    /\ UNCHANGED <<baseVars, schemaVars, rateVars, queueVars, errVars>>

\* p.Set(ctx, key, value, ttl)
CachePut(v) ==
    /\ v # Missing
    /\ CacheStore(v)

\* p.SetNX(ctx, key, value, ttl): stores only when the key is absent
CacheSetNX(v) ==
    /\ v # Missing
    /\ CacheStore(IF caStore = Missing THEN v ELSE caStore)

\* p.Increment(ctx, key) and p.Decrement(ctx, key)
CacheIncrement(delta) ==
    /\ IsCounter(IncrBy(caStore, delta)) =>
          (IncrBy(caStore, delta)[2] <= MaxCounter
           /\ IncrBy(caStore, delta)[2] >= 0 - MaxCounter)
    /\ CacheStore(IncrBy(caStore, delta))

NextCache ==
    \/ \E c \in 1..MaxCallers : CacheGet(c)
    \/ \E c \in 1..MaxCallers : CacheCompute(c)
    \/ \E c \in 1..MaxCallers : CacheSet(c)
    \/ \E c \in 1..MaxCallers : CacheDone(c)
    \/ CacheDelete
    \/ \E v \in DirectValues : CachePut(v)
    \/ \E v \in DirectValues : CacheSetNX(v)
    \/ \E delta \in {1, 0 - 1} : CacheIncrement(delta)

SpecCache == InitCache /\ [][NextCache]_vars

\* C26: a GetOrSet that started after a GetOrSet on the key had returned v,
\* with no delete, clear, expiry or direct write of the key since, returns v
\* and has not invoked its compute function; and the key holds v from that
\* return on.
C26_LaterCallsReturnFirstValue ==
    /\ \A c \in DOMAIN caCalls :
          (caCalls[c].pc = "returned" /\ caCalls[c].after # Missing) =>
              (caCalls[c].value = caCalls[c].after /\ ~caCalls[c].fn)
    /\ caReturned # Missing => caStore = caReturned

(***************************************************************************)
(* Queue (pkg/flux/queue/queue.go)                                         *)
(***************************************************************************)
MaxJobs == 2
MaxRetryLimit == 2
MaxProducers == 2
MaxWorkers == 2
\* how many runs of one job's handler are followed
MaxRuns == 3
\* job types: q.handlers holds a handler for the first one only
JobTypes == {"handled", "unhandled"}
HasHandler(type) == type = "handled"

LPush(list, id) == <<id>> \o list
RPopped(list) == list[Len(list)]
RPopRest(list) == SubSeq(list, 1, Len(list) - 1)
Del(jobs, id) == [x \in DOMAIN jobs \ {id} |-> jobs[x]]

\* generateID(): the clock's reading, formatted
generateID == quClock

NoJob == [ID |-> 0, Type |-> "", Attempts |-> 0, MaxRetries |-> 0]
EnqueueIdle == [pc |-> "idle", job |-> NoJob]
\* a processJobs goroutine at the top of its loop
WorkerAtRPop == [pc |-> "rpop", jobID |-> 0, job |-> NoJob]

InitQueue ==
    /\ quList = <<>> /\ quJobs = <<>> /\ quRuns = <<>> /\ quIds = 0
    /\ quClock = 1
    /\ quEnq = [p \in 1..MaxProducers |-> EnqueueIdle]
    /\ quWorkers = <<>>
    /\ InitIdleParse /\ InitIdleChain /\ InitIdleReq /\ InitIdleApp
    /\ InitIdleRoutes /\ InitIdleTimeout /\ InitIdleLock /\ InitIdleSchema
    /\ InitIdleRate /\ InitIdleCache /\ InitIdleErrors

\* the clock advances between two readings
QueueTick ==
    /\ quClock < MaxJobs
    /\ quClock' = quClock + 1
    /\ UNCHANGED <<quList, quJobs, quRuns, quIds, quEnq, quWorkers, baseVars,
                   schemaVars, rateVars, cacheVars, errVars>>

\* Enqueue(jobType, data, maxRetries), lines 59-71: the job is built with
\* the id generateID() returns and Attempts 0
Enqueue(p, jobType, maxRetries) ==
    /\ quEnq[p].pc = "idle"
    /\ quIds < MaxJobs
    /\ quIds' = quIds + 1
    /\ quEnq' = [quEnq EXCEPT ![p] =
           [pc |-> "set",
            job |-> [ID |-> generateID, Type |-> jobType, Attempts |-> 0,
                     MaxRetries |-> maxRetries]]]
    /\ quRuns' = IF generateID \in DOMAIN quRuns THEN quRuns
                 ELSE MapPut(quRuns, generateID, 0)
    /\ UNCHANGED <<quList, quJobs, quClock, quWorkers, baseVars, schemaVars,
                   rateVars, cacheVars, errVars>>

\* line 74: q.client.Set(key, jobData); an error ends the call (75)
EnqueueSet(p, redisFails) ==
    /\ quEnq[p].pc = "set"
    /\ IF redisFails
       THEN /\ quEnq' = [quEnq EXCEPT ![p] = EnqueueIdle]
            /\ UNCHANGED quJobs
       ELSE /\ quJobs' = MapPut(quJobs, quEnq[p].job.ID, quEnq[p].job)
            /\ quEnq' = [quEnq EXCEPT ![p].pc = "lpush"]
    /\ UNCHANGED <<quList, quRuns, quIds, quClock, quWorkers, baseVars,
                   schemaVars, rateVars, cacheVars, errVars>>

\* line 78: q.client.LPush("queue", job.ID); an error ends the call (79) and
\* leaves the record stored at line 74
EnqueueLPush(p, redisFails) ==
    /\ quEnq[p].pc = "lpush"
    /\ quList' = IF redisFails THEN quList ELSE LPush(quList, quEnq[p].job.ID)
    /\ quEnq' = [quEnq EXCEPT ![p] = EnqueueIdle]
    /\ UNCHANGED <<quJobs, quRuns, quIds, quClock, quWorkers, baseVars,
                   schemaVars, rateVars, cacheVars, errVars>>

\* Start(): go q.processJobs()
Start ==
    /\ Len(quWorkers) < MaxWorkers
    /\ quWorkers' = Append(quWorkers, WorkerAtRPop)
    /\ UNCHANGED <<quList, quJobs, quRuns, quIds, quClock, quEnq, baseVars,
                   schemaVars, rateVars, cacheVars, errVars>>

\* line 115: q.client.RPop("queue") returns an id (on redis.Nil, or an
\* error, the loop continues without a change)
WorkerRPop(w) ==
    /\ quWorkers[w].pc = "rpop"
    /\ quList # <<>>
    /\ quList' = RPopRest(quList)
    /\ quWorkers' = [quWorkers EXCEPT ![w] =
           [pc |-> "get", jobID |-> RPopped(quList), job |-> NoJob]]
    /\ UNCHANGED <<quJobs, quRuns, quIds, quClock, quEnq, baseVars, schemaVars,
                   rateVars, cacheVars, errVars>>

\* lines 125-133: q.client.Get(key) and json.Unmarshal; without a record, or
\* on an error, the loop continues
WorkerGet(w, redisFails) ==
    /\ quWorkers[w].pc = "get"
    /\ quWorkers' = [quWorkers EXCEPT ![w] =
           IF redisFails \/ quWorkers[w].jobID \notin DOMAIN quJobs
           THEN WorkerAtRPop
           ELSE [pc |-> "handle", jobID |-> quWorkers[w].jobID,
                 job |-> quJobs[quWorkers[w].jobID]]]
    /\ UNCHANGED <<quList, quJobs, quRuns, quIds, quClock, quEnq, baseVars,
                   schemaVars, rateVars, cacheVars, errVars>>

\* lines 135-138: the handler of job.Type, if there is one, is run; on an
\* error Attempts is incremented in the decoded copy and compared with
\* MaxRetries
WorkerHandle(w, handlerFails) ==
    /\ quWorkers[w].pc = "handle"
    /\ LET job == quWorkers[w].job
           ran == HasHandler(job.Type)
           attempts == IF ran /\ handlerFails THEN job.Attempts + 1
                       ELSE job.Attempts
       IN  /\ ran => quRuns[job.ID] < MaxRuns
           /\ quRuns' = IF ran THEN [quRuns EXCEPT ![job.ID] = @ + 1]
                        ELSE quRuns
           /\ quWorkers' = [quWorkers EXCEPT ![w] =
                  [pc |-> IF ran /\ handlerFails /\ attempts < job.MaxRetries
                          THEN "lpush" ELSE "del",
                   jobID |-> quWorkers[w].jobID,
                   job |-> [job EXCEPT !.Attempts = attempts]]]
    /\ UNCHANGED <<quList, quJobs, quIds, quClock, quEnq, baseVars, schemaVars,
                   rateVars, cacheVars, errVars>>

\* line 139: q.client.LPush("queue", job.ID); its result is not looked at
WorkerLPush(w, redisFails) ==
    /\ quWorkers[w].pc = "lpush"
    /\ quList' = IF redisFails THEN quList
                 ELSE LPush(quList, quWorkers[w].job.ID)
    /\ quWorkers' = [quWorkers EXCEPT ![w].pc = "del"]
    /\ UNCHANGED <<quJobs, quRuns, quIds, quClock, quEnq, baseVars, schemaVars,
                   rateVars, cacheVars, errVars>>

\* line 144: q.client.Del(key), on every path that has decoded the job; its
\* result is not looked at
WorkerDel(w, redisFails) ==
    /\ quWorkers[w].pc = "del"
    /\ quJobs' = IF redisFails THEN quJobs ELSE Del(quJobs, quWorkers[w].jobID)
    /\ quWorkers' = [quWorkers EXCEPT ![w] = WorkerAtRPop]
    /\ UNCHANGED <<quList, quRuns, quIds, quClock, quEnq, baseVars, schemaVars,
                   rateVars, cacheVars, errVars>>

NextQueue ==
    \/ QueueTick
    \/ \E p \in 1..MaxProducers, jobType \in JobTypes,
          maxRetries \in 1..MaxRetryLimit : Enqueue(p, jobType, maxRetries)
    \/ \E p \in 1..MaxProducers, redisFails \in BOOLEAN : EnqueueSet(p, redisFails)
    \/ \E p \in 1..MaxProducers, redisFails \in BOOLEAN : EnqueueLPush(p, redisFails)
    \/ Start
    \/ \E w \in DOMAIN quWorkers : WorkerRPop(w)
    \/ \E w \in DOMAIN quWorkers, redisFails \in BOOLEAN : WorkerGet(w, redisFails)
    \/ \E w \in DOMAIN quWorkers, handlerFails \in BOOLEAN : WorkerHandle(w, handlerFails)
    \/ \E w \in DOMAIN quWorkers, redisFails \in BOOLEAN : WorkerLPush(w, redisFails)
    \/ \E w \in DOMAIN quWorkers, redisFails \in BOOLEAN : WorkerDel(w, redisFails)

SpecQueue == InitQueue /\ [][NextQueue]_vars

\* C28: whenever a job id is in the queue list, the job's record can be
\* retrieved, so that a re-queued job is run again.
C28_QueuedJobHasRecord ==
    \A i \in DOMAIN quList : quList[i] \in DOMAIN quJobs

(***************************************************************************)
(* AppError and its With* methods (errors.go)                              *)
(***************************************************************************)
MaxObjs == 4
MaxWriters == 2
NilAddr == 0
NilError == "nil"
ErrorInputs == {"token expired"}
CodeInputs == {"E_AUTH"}
DetailKeys == {<<"message">>}
DetailValues == {"not initialized", "other"}
NotWriting == [map |-> NilAddr, key |-> <<>>, value |-> "", clone |-> <<>>]
\* the argument of WithDetails: nil, or a map the caller has made
NilDetails == [isNil |-> TRUE, map |-> <<>>]
DetailsInputs ==
    {NilDetails} \cup {[isNil |-> FALSE, map |-> m] : m \in [DetailKeys -> DetailValues]}

\* NewAppError(message, statusCode) with its Details map at address m
NewAppErrorAt(message, statusCode, m) ==
    [Message |-> message, StatusCode |-> statusCode, Code |-> "",
     Details |-> m, Err |-> NilError]

\* the package's sentinels (lines 9-16): ErrUnauthorized and ErrInternalError
InitErrors ==
    /\ erObjs = <<NewAppErrorAt("unauthorized", 401, 1),
                  NewAppErrorAt("internal server error", 500, 2)>>
    /\ erMaps = << <<>>, <<>> >>
    /\ erWriting = [g \in 1..MaxWriters |-> NotWriting]
    /\ erCrashed = FALSE
    /\ InitIdleParse /\ InitIdleChain /\ InitIdleReq /\ InitIdleApp
    /\ InitIdleRoutes /\ InitIdleTimeout /\ InitIdleLock /\ InitIdleSchema
    /\ InitIdleRate /\ InitIdleCache /\ InitIdleQueue

CanAllocate == ~erCrashed /\ Len(erObjs) < MaxObjs /\ Len(erMaps) < MaxObjs

\* e.WithError(err): clone := *e; clone.Err = err; return &clone
WithError(e, err) ==
    /\ CanAllocate
    /\ erObjs' = Append(erObjs, [erObjs[e] EXCEPT !.Err = err])
    /\ UNCHANGED <<erMaps, erWriting, erCrashed, baseVars, schemaVars, rateVars,
                   cacheVars, queueVars>>

\* e.WithCode(code)
CloneWithCode(e, code) ==
    /\ CanAllocate
    /\ erObjs' = Append(erObjs, [erObjs[e] EXCEPT !.Code = code])
    /\ UNCHANGED <<erMaps, erWriting, erCrashed, baseVars, schemaVars, rateVars,
                   cacheVars, queueVars>>

\* e.WithDetails(details)
WithDetails(e, details) ==
    /\ CanAllocate
    /\ IF details.isNil
       THEN /\ erMaps' = erMaps
            /\ erObjs' = Append(erObjs, [erObjs[e] EXCEPT !.Details = NilAddr])
       ELSE /\ erMaps' = Append(erMaps, details.map)
            /\ erObjs' = Append(erObjs,
                                [erObjs[e] EXCEPT !.Details = Len(erMaps) + 1])
    /\ UNCHANGED <<erWriting, erCrashed, baseVars, schemaVars, rateVars,
                   cacheVars, queueVars>>

\* e.WithDetail(key, value), lines 54-57: clone := *e copies the struct, the
\* map it refers to included; a nil Details gets a new map
WithDetailBegin(g, e, key, value) ==
    /\ CanAllocate
    /\ erWriting[g] = NotWriting
    /\ IF erObjs[e].Details = NilAddr
       THEN /\ erMaps' = Append(erMaps, <<>>)
            /\ erWriting' = [erWriting EXCEPT ![g] =
                 [map |-> Len(erMaps) + 1, key |-> key, value |-> value,
                  clone |-> <<[erObjs[e] EXCEPT !.Details = Len(erMaps) + 1]>>]]
       ELSE /\ erMaps' = erMaps
            /\ erWriting' = [erWriting EXCEPT ![g] =
                 [map |-> erObjs[e].Details, key |-> key, value |-> value,
                  clone |-> <<erObjs[e]>>]]
    /\ UNCHANGED <<erObjs, erCrashed, baseVars, schemaVars, rateVars, cacheVars,
                   queueVars>>

\* lines 58-59: clone.Details[key] = value; return &clone.  Two goroutines
\* assigning to one map at the same time is a data race: the runtime may end
\* the process ("concurrent map writes") or not notice
WithDetailEnd(g, detected) ==
    /\ ~erCrashed
    /\ erWriting[g] # NotWriting
    /\ LET w == erWriting[g]
           raced == \E h \in DOMAIN erWriting : h # g /\ erWriting[h].map = w.map
       IN  IF raced /\ detected
           THEN /\ erCrashed' = TRUE
                /\ UNCHANGED <<erObjs, erMaps, erWriting>>
           ELSE /\ erMaps' = [erMaps EXCEPT ![w.map] = MapPut(@, w.key, w.value)]
                /\ erObjs' = Append(erObjs, w.clone[1])
                /\ erWriting' = [erWriting EXCEPT ![g] = NotWriting]
                /\ erCrashed' = erCrashed
    /\ UNCHANGED <<baseVars, schemaVars, rateVars, cacheVars, queueVars>>

NextErrors ==
    \/ \E e \in DOMAIN erObjs, err \in ErrorInputs : WithError(e, err)
    \/ \E e \in DOMAIN erObjs, code \in CodeInputs : CloneWithCode(e, code)
    \/ \E e \in DOMAIN erObjs, details \in DetailsInputs : WithDetails(e, details)
    \/ \E g \in 1..MaxWriters, e \in DOMAIN erObjs, key \in DetailKeys,
          value \in DetailValues : WithDetailBegin(g, e, key, value)
    \/ \E g \in 1..MaxWriters, detected \in BOOLEAN : WithDetailEnd(g, detected)

SpecErrors == InitErrors /\ [][NextErrors]_vars

\* what a reader of the AppError at address a sees
Observed(a) ==
    [erObjs[a] EXCEPT !.Details =
        IF erObjs[a].Details = NilAddr THEN <<"nil">>
        ELSE <<"map", erMaps[erObjs[a].Details]>>]

\* C29: no With* call changes an AppError that exists already, its Details
\* map included; the sentinels in particular keep their message, status and
\* empty Details.
C29_ReceiverUnchanged ==
    [][\A a \in DOMAIN erObjs : Observed(a)' = Observed(a)]_vars

\* C30: the goroutine that Timeout starts ends once the handler has returned:
\* it is never left sending on done when the serving goroutine has already
\* returned through the timer case and nothing will receive.
C30_TimeoutGoroutineEnds ==
    tCfg.timeout => tHand.pc # "blocked"

====
